---- MODULE Spec2Model ----
(***************************************************************************)
(* Vylo-backend: the income envelope writer (routes/income.js), the budget  *)
(* reconciliation engine and reassignment log (routes/budgets.js), the     *)
(* entries router (routes/entries.js), the savings engine                  *)
(* (routes/savings.js) and the chat orchestrator (routes/chat.js) over the *)
(* per-user document store.  Amounts are integers (whole currency units).  *)
(***************************************************************************)
EXTENDS Integers, Sequences, FiniteSets, Bags, TLC

VARIABLES
  userIncome,   \* collection user_income:  user -> document {income: {month: {total, sources}}}
  userBudgets,  \* collection user_budgets: user -> document {budgets: {month: {total, categories}}}
  userEntries,  \* collection user_entries: user -> document {month: {day: {entries: [...]}}}
  reassignments, \* collection budget_reassignments: a bag of {userId, month, entryId, ...}
  pending,      \* the PUT /income/:month requests in flight between their read and their write
  pc,           \* "idle" between requests, "responded" once a handler has sent its response
  req,          \* the request the last handler ran on
  res,          \* the response the last handler sent
  chat          \* the chat request in progress: its state, intents, branches and results

vars == <<userIncome, userBudgets, userEntries, reassignments, pending, pc, req, res, chat>>

(***************************************************************************)
(* Bounds                                                                  *)
(***************************************************************************)
MaxIncome == 2    \* largest income total a request carries
MaxSource == 1    \* largest amount of one income source a request carries
MaxBudget == 1    \* largest budget amount (total or one category) a request carries
MaxSpend  == 1    \* largest amount of one entry
MaxIntents == 2   \* most intents the resolver returns for one chat message
MaxEntries == 3   \* most entries a user's document holds

Users  == {"u1"}
Months == {"2024-01", "2024-02"}
SourceNames == {"salary", "miscellaneous"}
BudgetMonths == {"2024-01"}               \* the months a budget is declared for
Days == {"01", "02"}
EntryIds == {"e1", "e2"}
BudgetCodes == {"FOD", "MIS"}             \* the codes a budget declares
EntryCodes == {"FOD", "FOD-GRO", "MIS"}   \* the codes entries are recorded under

EmptyObj == [k \in {} |-> 0]

\* Object.values(o).reduce((sum, amount) => sum + amount, 0)
RECURSIVE SumValues(_)
SumValues(o) ==
  IF DOMAIN o = {} THEN 0
  ELSE LET k == CHOOSE x \in DOMAIN o : TRUE
       IN  o[k] + SumValues([x \in DOMAIN o \ {k} |-> o[x]])

\* { ...o, [key]: value }
Spread(o, key, value) ==
  [k \in DOMAIN o \cup {key} |-> IF k = key THEN value ELSE o[k]]

\* $set of one nested path doc.field[key] = value
SetPath(obj, key, value) == Spread(obj, key, value)

\* $unset of one nested path
UnsetPath(obj, key) == [k \in DOMAIN obj \ {key} |-> obj[k]]

NoDoc == [exists |-> FALSE, income |-> EmptyObj]

NoReq == [op |-> "none"]
NoRes == [status |-> 0, error |-> "none"]

\* two request slots, none in flight
Slots == {1, 2}

NoSlot == [state |-> "idle", r |-> NoReq, existing |-> EmptyObj, res |-> NoRes]

NoPending == [k \in Slots |-> NoSlot]

Response(status, error) == [status |-> status, error |-> error]

(***************************************************************************)
(* Income requests: body fields total and sources are optional.            *)
(***************************************************************************)
Amounts == -1 .. MaxIncome

SourceAmounts == -1 .. MaxSource

SourceMaps == UNION {[S -> SourceAmounts] : S \in SUBSET SourceNames}

IncomeBodies ==
  [hasTotal : {TRUE}, total : Amounts, hasSources : {TRUE}, sources : SourceMaps]
  \cup [hasTotal : {TRUE}, total : Amounts, hasSources : {FALSE}, sources : {EmptyObj}]
  \cup [hasTotal : {FALSE}, total : {0}, hasSources : {TRUE}, sources : SourceMaps]
  \cup [hasTotal : {FALSE}, total : {0}, hasSources : {FALSE}, sources : {EmptyObj}]

IncomeReq(op, u, month, b) ==
  [op |-> op, user |-> u, month |-> month, hasTotal |-> b.hasTotal, total |-> b.total,
   hasSources |-> b.hasSources, sources |-> b.sources]

\* for (const [key, value] of Object.entries(sources)) if (value < 0) ...
HasNegativeSource(sources) == \E k \in DOMAIN sources : sources[k] < 0

(***************************************************************************)
(* POST /income                                                            *)
(***************************************************************************)
\* a plausible slip: the overflow check is left out
SetIncomeValidation_NoOverflow(r) ==
  IF ~r.hasTotal \/ r.total < 0 THEN Response(400, "total required")
  ELSE IF r.hasSources /\ HasNegativeSource(r.sources)
    THEN Response(400, "source negative")
  ELSE Response(201, "none")

SetIncomeValidation(r) ==
  IF ~r.hasTotal \/ r.total < 0 THEN Response(400, "total required")
  ELSE IF r.hasSources /\ HasNegativeSource(r.sources)
    THEN Response(400, "source negative")
  ELSE IF r.hasSources /\ SumValues(r.sources) > r.total
    THEN Response(400, "sources exceed total")
  ELSE Response(201, "none")

\* a plausible slip: miscellaneous is added even when the shortfall is zero
SetIncomeFinalSources_AlwaysMisc(r) ==
  IF ~r.hasSources THEN [main |-> r.total]
  ELSE Spread(r.sources, "miscellaneous", r.total - SumValues(r.sources))

SetIncomeFinalSources(r) ==
  IF ~r.hasSources THEN [main |-> r.total]
  ELSE IF SumValues(r.sources) < r.total
    THEN Spread(r.sources, "miscellaneous", r.total - SumValues(r.sources))
  ELSE r.sources

\* a plausible slip: the new sources are merged into the stored ones
SetIncomeStore_Merge(doc, r) ==
  LET new == SetIncomeFinalSources(r)
      old == IF r.month \in DOMAIN doc.income THEN doc.income[r.month].sources
             ELSE EmptyObj
  IN  [exists |-> TRUE,
       income |-> SetPath(doc.income, r.month,
                    [total |-> r.total,
                     sources |-> [k \in DOMAIN old \cup DOMAIN new |->
                                    IF k \in DOMAIN new THEN new[k] ELSE old[k]]])]

\* updateOne({userId}, {$set: {income.<month>: incomeData}}, {upsert: true})
SetIncomeStore(doc, r) ==
  [exists |-> TRUE,
   income |-> SetPath(doc.income, r.month,
                      [total |-> r.total, sources |-> SetIncomeFinalSources(r)])]

SetIncome(u, month, b) ==
  LET r == IncomeReq("setIncome", u, month, b)
      v == SetIncomeValidation(r)
  IN  /\ pc = "idle"
      /\ req' = r
      /\ res' = v
      /\ userIncome' = IF v.status = 201
                         THEN [userIncome EXCEPT ![u] = SetIncomeStore(userIncome[u], r)]
                         ELSE userIncome
      /\ pc' = "responded"
      /\ UNCHANGED <<userBudgets, userEntries, chat, reassignments, pending>>

(***************************************************************************)
(* GET /income/:month                                                      *)
(***************************************************************************)
Null == [isNull |-> TRUE]

\* res.json({month, income: incomeDoc?.income?.[month] || null})
GetIncomeResponse(doc, month) ==
  [status |-> 200, error |-> "none",
   body   |-> [month  |-> month,
               income |-> IF doc.exists /\ month \in DOMAIN doc.income
                            THEN doc.income[month] ELSE Null]]

GetIncome(u, month) ==
  /\ pc = "idle"
  /\ req' = [op |-> "getIncome", user |-> u, month |-> month]
  /\ res' = GetIncomeResponse(userIncome[u], month)
  /\ pc' = "responded"
  /\ UNCHANGED <<userIncome, userBudgets, userEntries, chat, reassignments, pending>>

(***************************************************************************)
(* PUT /income/:month                                                      *)
(***************************************************************************)
\* if (!total && !sources): !total holds for undefined and for 0
UpdateIncomeMissing(r) == (~r.hasTotal \/ r.total = 0) /\ ~r.hasSources

UpdateIncomeValidation(r) ==
  IF UpdateIncomeMissing(r) THEN Response(400, "total or sources required")
  ELSE IF r.hasTotal /\ r.total < 0 THEN Response(400, "total negative")
  ELSE IF r.hasSources /\ HasNegativeSource(r.sources)
    THEN Response(400, "source negative")
  ELSE Response(200, "none")

\* const finalTotal = total !== undefined ? total : existingIncome.total
UpdateIncomeFinalTotal(existing, r) ==
  IF r.hasTotal THEN r.total ELSE existing.total

\* the three cases: does the breakdown in effect exceed the total in effect?
UpdateIncomeExceeds(existing, r) ==
  IF r.hasTotal /\ r.hasSources THEN SumValues(r.sources) > r.total
  ELSE IF r.hasTotal /\ ~r.hasSources THEN SumValues(existing.sources) > r.total
  ELSE IF r.hasSources /\ ~r.hasTotal
    THEN SumValues(r.sources) > UpdateIncomeFinalTotal(existing, r)
  ELSE FALSE

\* let finalSources = sources !== undefined ? sources : existingIncome.sources,
\* then the shortfall of the matching case is put under the key miscellaneous
\* (first a plausible slip: a raised total leaves the stored breakdown as it is)
UpdateIncomeFinalSources_KeepExisting(existing, r) ==
  LET finalTotal == UpdateIncomeFinalTotal(existing, r)
  IN  IF r.hasTotal /\ r.hasSources THEN
        IF SumValues(r.sources) < r.total
          THEN Spread(r.sources, "miscellaneous", r.total - SumValues(r.sources))
          ELSE r.sources
      ELSE IF r.hasTotal /\ ~r.hasSources THEN existing.sources
      ELSE IF r.hasSources /\ ~r.hasTotal THEN
        IF SumValues(r.sources) < finalTotal
          THEN Spread(r.sources, "miscellaneous", finalTotal - SumValues(r.sources))
          ELSE r.sources
      ELSE existing.sources

UpdateIncomeFinalSources(existing, r) ==
  LET finalTotal == UpdateIncomeFinalTotal(existing, r)
  IN  IF r.hasTotal /\ r.hasSources THEN
        IF SumValues(r.sources) < r.total
          THEN Spread(r.sources, "miscellaneous", r.total - SumValues(r.sources))
          ELSE r.sources
      ELSE IF r.hasTotal /\ ~r.hasSources THEN
        IF SumValues(existing.sources) < r.total
          THEN Spread(existing.sources, "miscellaneous",
                      r.total - SumValues(existing.sources))
          ELSE existing.sources
      ELSE IF r.hasSources /\ ~r.hasTotal THEN
        IF SumValues(r.sources) < finalTotal
          THEN Spread(r.sources, "miscellaneous", finalTotal - SumValues(r.sources))
          ELSE r.sources
      ELSE existing.sources

\* a plausible slip: the record is reported missing with the status of a bad request
UpdateIncomeResponse_NotFoundAs400(doc, r) ==
  LET v == UpdateIncomeValidation(r)
  IN  IF v.status # 200 THEN v
      ELSE IF ~doc.exists \/ r.month \notin DOMAIN doc.income
        THEN Response(400, "no income record")
      ELSE IF UpdateIncomeExceeds(doc.income[r.month], r)
        THEN Response(400, "sources exceed total")
      ELSE Response(200, "none")

UpdateIncomeResponse(doc, r) ==
  LET v == UpdateIncomeValidation(r)
  IN  IF v.status # 200 THEN v
      ELSE IF ~doc.exists \/ r.month \notin DOMAIN doc.income
        THEN Response(404, "no income record")
      ELSE IF UpdateIncomeExceeds(doc.income[r.month], r)
        THEN Response(400, "sources exceed total")
      ELSE Response(200, "none")

\* updateOne({userId}, {$set: {income.<month>.total, income.<month>.sources}})
UpdateIncomeStore(doc, r) ==
  LET existing == doc.income[r.month]
  IN  [doc EXCEPT !.income =
         SetPath(doc.income, r.month,
                 [total   |-> IF r.hasTotal THEN UpdateIncomeFinalTotal(existing, r)
                              ELSE existing.total,   \* total is $set only when given
                  sources |-> UpdateIncomeFinalSources(existing, r)])]

UpdateIncome(u, month, b) ==
  LET r == IncomeReq("updateIncome", u, month, b)
      v == UpdateIncomeResponse(userIncome[u], r)
  IN  /\ pc = "idle"
      /\ req' = r
      /\ res' = v
      /\ userIncome' = IF v.status = 200
                         THEN [userIncome EXCEPT ![u] = UpdateIncomeStore(userIncome[u], r)]
                         ELSE userIncome
      /\ pc' = "responded"
      /\ UNCHANGED <<userBudgets, userEntries, chat, reassignments, pending>>

(***************************************************************************)
(* DELETE /income/:month                                                   *)
(***************************************************************************)
\* result.matchedCount === 0 exactly when the user has no income document
DeleteIncomeResponse(doc) ==
  IF ~doc.exists THEN Response(404, "no income records for user")
  ELSE Response(200, "none")

DeleteIncomeStore(doc, month) ==
  IF doc.exists THEN [doc EXCEPT !.income = UnsetPath(doc.income, month)] ELSE doc

DeleteIncome(u, month) ==
  /\ pc = "idle"
  /\ req' = [op |-> "deleteIncome", user |-> u, month |-> month]
  /\ res' = DeleteIncomeResponse(userIncome[u])
  /\ userIncome' = [userIncome EXCEPT ![u] = DeleteIncomeStore(userIncome[u], month)]
  /\ pc' = "responded"
  /\ UNCHANGED <<userBudgets, userEntries, chat, reassignments, pending>>

(***************************************************************************)
(* Category taxonomy (data/categories.json): code and optional parent.     *)
(***************************************************************************)
Taxonomy ==
  { [code |-> "FOD",      parent |-> "none"],
    [code |-> "FOD-GRO",  parent |-> "FOD"],
    [code |-> "HOU",      parent |-> "none"],
    [code |-> "HOU-RENT", parent |-> "HOU"],
    [code |-> "TRN",      parent |-> "none"],
    [code |-> "TRN-FUEL", parent |-> "TRN"],
    [code |-> "MIS",      parent |-> "none"] }

\* categories.find(cat => cat.code === categoryCode)?.parent
ParentOf(code) ==
  IF \E c \in Taxonomy : c.code = code
    THEN (CHOOSE c \in Taxonomy : c.code = code).parent
    ELSE "none"

(***************************************************************************)
(* POST /budgets                                                           *)
(***************************************************************************)
CategoryMaps == UNION {[S -> 0 .. MaxBudget] : S \in SUBSET BudgetCodes}

BudgetBodies ==
  [hasTotal : {TRUE}, total : 0 .. MaxBudget, categories : CategoryMaps]
  \cup {[hasTotal |-> FALSE, total |-> 0, categories |-> EmptyObj]}

SetBudgetValidation(b) ==
  IF ~b.hasTotal THEN Response(400, "month, total and categories required")
  ELSE Response(201, "none")

\* updateOne({userId}, {$set: {budgets.<month>: {total, categories}}}, {upsert: true})
SetBudgetStore(doc, month, b) ==
  [exists |-> TRUE,
   budgets |-> SetPath(doc.budgets, month,
                       [total |-> b.total, categories |-> b.categories])]

SetBudget(u, month, b) ==
  LET v == SetBudgetValidation(b)
  IN  /\ pc = "idle"
      /\ req' = [op |-> "setBudget", user |-> u, month |-> month, body |-> b]
      /\ res' = v
      /\ userBudgets' = IF v.status = 201
                          THEN [userBudgets EXCEPT ![u] = SetBudgetStore(userBudgets[u], month, b)]
                          ELSE userBudgets
      /\ pc' = "responded"
      /\ UNCHANGED <<userIncome, userEntries, chat, reassignments, pending>>

(***************************************************************************)
(* GET /budgets/:month                                                     *)
(***************************************************************************)
\* res.json({month, budget: budgetDoc?.budgets?.[month] || null})
GetBudgetResponse(doc, month) ==
  [status |-> 200, error |-> "none",
   body   |-> [month  |-> month,
               budget |-> IF doc.exists /\ month \in DOMAIN doc.budgets
                            THEN doc.budgets[month] ELSE Null]]

GetBudget(u, month) ==
  /\ pc = "idle"
  /\ req' = [op |-> "getBudget", user |-> u, month |-> month]
  /\ res' = GetBudgetResponse(userBudgets[u], month)
  /\ pc' = "responded"
  /\ UNCHANGED <<userIncome, userBudgets, userEntries, chat, reassignments, pending>>

(***************************************************************************)
(* POST /entries/add-user-entries                                          *)
(***************************************************************************)
Entries == [id : EntryIds, code : EntryCodes, amount : 1 .. MaxSpend]

RECURSIVE SeqIds(_)
SeqIds(es) == IF es = <<>> THEN {} ELSE {Head(es).id} \cup SeqIds(Tail(es))

\* the ids of the entries a user's document holds
DocIds(doc) ==
  UNION {SeqIds(doc.months[md[1]][md[2]].entries) :
           md \in {x \in (DOMAIN doc.months) \X Days : x[2] \in DOMAIN doc.months[x[1]]}}

\* request bodies: an array of one or two entries with fresh ids, or an empty array
EntryBatches(used) ==
  LET fresh == {x \in Entries : x.id \notin used}
  IN  {<<>>}
      \cup {<<e>> : e \in fresh}
      \cup {<<p[1], p[2]>> : p \in {q \in fresh \X fresh : q[1].id # q[2].id}}

AddEntriesValidation(es) ==
  IF Len(es) = 0 THEN Response(400, "entries array required")
  ELSE Response(201, "none")

\* updateOne({userId}, {$push: {<month>.<day>.entries: {$each: entries}}}, {upsert: true})
AddEntriesStore(doc, month, day, es) ==
  LET monthly == IF month \in DOMAIN doc.months THEN doc.months[month] ELSE EmptyObj
      old     == IF day \in DOMAIN monthly THEN monthly[day].entries ELSE <<>>
  IN  [exists |-> TRUE,
       months |-> SetPath(doc.months, month,
                          SetPath(monthly, day, [entries |-> old \o es]))]

AddEntries(u, month, day, es) ==
  LET v == AddEntriesValidation(es)
  IN  /\ pc = "idle"
      /\ req' = [op |-> "addEntries", user |-> u, month |-> month, day |-> day,
                 entries |-> es]
      /\ res' = v
      /\ userEntries' = IF v.status = 201
                          THEN [userEntries EXCEPT ![u] = AddEntriesStore(userEntries[u], month, day, es)]
                          ELSE userEntries
      /\ pc' = "responded"
      /\ UNCHANGED <<userIncome, userBudgets, chat, reassignments, pending>>

(***************************************************************************)
(* GET /budgets/:month/remaining                                           *)
(***************************************************************************)
\* const monthlyEntries = entriesDoc?.[month] || {}
MonthlyEntries(doc, month) ==
  IF doc.exists /\ month \in DOMAIN doc.months THEN doc.months[month] ELSE EmptyObj

\* the accumulator miscellaneousExpenses, which is not a key of expensesByCategory
MiscAccumulator == "miscellaneousExpenses"

\* the truthiness test monthlyBudget.categories[code]
Allocated(categories, code) == code \in DOMAIN categories /\ categories[code] # 0

\* exact match first, then the parent category, else miscellaneous
SpendBucket(categories, code) ==
  IF Allocated(categories, code) THEN code
  ELSE IF ParentOf(code) # "none" /\ Allocated(categories, ParentOf(code))
    THEN ParentOf(code)
  ELSE MiscAccumulator

\* dayData.entries.forEach: the amounts accumulated into one bucket
RECURSIVE SeqSpend(_, _, _)
SeqSpend(categories, es, bucket) ==
  IF es = <<>> THEN 0
  ELSE (IF SpendBucket(categories, Head(es).code) = bucket THEN Head(es).amount ELSE 0)
       + SeqSpend(categories, Tail(es), bucket)

\* Object.values(monthlyEntries).forEach
RECURSIVE MonthSpend(_, _, _)
MonthSpend(categories, monthly, bucket) ==
  IF DOMAIN monthly = {} THEN 0
  ELSE LET d == CHOOSE x \in DOMAIN monthly : TRUE
       IN  SeqSpend(categories, monthly[d].entries, bucket)
           + MonthSpend(categories, [x \in DOMAIN monthly \ {d} |-> monthly[x]], bucket)

RECURSIVE SeqCodes(_)
SeqCodes(es) == IF es = <<>> THEN {} ELSE {Head(es).code} \cup SeqCodes(Tail(es))

MonthCodes(monthly) == UNION {SeqCodes(monthly[d].entries) : d \in DOMAIN monthly}

\* expensesByCategory: a key for every bucket some entry was accumulated into
ExpensesByCategory(categories, monthly) ==
  [b \in {SpendBucket(categories, c) : c \in MonthCodes(monthly)} \ {MiscAccumulator}
     |-> MonthSpend(categories, monthly, b)]

MiscellaneousExpenses(categories, monthly) ==
  MonthSpend(categories, monthly, MiscAccumulator)

\* expensesByCategory[categoryCode] || 0
SpentOr0(expenses, code) == IF code \in DOMAIN expenses THEN expenses[code] ELSE 0

RemainingBudgets(budget, monthly) ==
  LET expenses == ExpensesByCategory(budget.categories, monthly)
      miscellaneousBudget == budget.total - SumValues(budget.categories)
  IN  Spread([c \in DOMAIN budget.categories |->
                budget.categories[c] - SpentOr0(expenses, c)],
             "MIS",
             miscellaneousBudget - MiscellaneousExpenses(budget.categories, monthly))

TotalSpent(budget, monthly) ==
  SumValues(ExpensesByCategory(budget.categories, monthly))
    + MiscellaneousExpenses(budget.categories, monthly)

RemainingBody(month, budget, monthly) ==
  [month              |-> month,
   originalBudget     |-> budget,
   totalSpent         |-> TotalSpent(budget, monthly),
   totalRemaining     |-> budget.total - TotalSpent(budget, monthly),
   remainingBudgets   |-> RemainingBudgets(budget, monthly),
   expensesByCategory |-> Spread(ExpensesByCategory(budget.categories, monthly), "MIS",
                                 MiscellaneousExpenses(budget.categories, monthly))]

\* a plausible slip: a month without a budget is answered as an empty budget
RemainingResponse_DefaultBudget(budgetDoc, entriesDoc, month) ==
  IF ~budgetDoc.exists \/ month \notin DOMAIN budgetDoc.budgets
    THEN [status |-> 200, error |-> "none",
          body |-> RemainingBody(month, [total |-> 0, categories |-> EmptyObj],
                                 MonthlyEntries(entriesDoc, month))]
    ELSE [status |-> 200, error |-> "none",
          body |-> RemainingBody(month, budgetDoc.budgets[month],
                                 MonthlyEntries(entriesDoc, month))]

RemainingResponse(budgetDoc, entriesDoc, month) ==
  IF ~budgetDoc.exists \/ month \notin DOMAIN budgetDoc.budgets
    THEN Response(404, "no budget set for this month")
    ELSE [status |-> 200, error |-> "none",
          body |-> RemainingBody(month, budgetDoc.budgets[month],
                                 MonthlyEntries(entriesDoc, month))]

Remaining(u, month) ==
  /\ pc = "idle"
  /\ req' = [op |-> "remaining", user |-> u, month |-> month]
  /\ res' = RemainingResponse(userBudgets[u], userEntries[u], month)
  /\ pc' = "responded"
  /\ UNCHANGED <<userIncome, userBudgets, userEntries, chat, reassignments, pending>>

(***************************************************************************)
(* GET /savings/:month/monthly and GET /savings/:year/yearly               *)
(* A savings rate (a number with two decimals in the code) is kept in      *)
(* hundredths of a percent.                                                *)
(***************************************************************************)
Years == {"2024", "2025"}
MonthNumbers == <<"01", "02", "03", "04", "05", "06", "07", "08", "09", "10", "11", "12">>
MonthsPerYear == 12

\* `${year}-${i.toString().padStart(2, '0')}`
YearMonth(year, i) == year \o "-" \o MonthNumbers[i]

\* entries.forEach(entry => { totalExpenses += entry.amount || 0 })
RECURSIVE SeqAmount(_)
SeqAmount(es) == IF es = <<>> THEN 0 ELSE Head(es).amount + SeqAmount(Tail(es))

RECURSIVE DaysAmount(_, _)
DaysAmount(monthly, days) ==
  IF days = {} THEN 0
  ELSE LET d == CHOOSE x \in days : TRUE
       IN  SeqAmount(monthly[d].entries) + DaysAmount(monthly, days \ {d})

\* Object.values(entriesDoc?.[month] || {}).forEach(dayData => ...)
CalculateMonthlyExpenses(doc, month) ==
  LET monthly == MonthlyEntries(doc, month)
  IN  DaysAmount(monthly, DOMAIN monthly)

\* incomeDoc?.income?.[month]?.total || 0
GetMonthlyIncome(doc, month) ==
  IF doc.exists /\ month \in DOMAIN doc.income THEN doc.income[month].total ELSE 0

\* Math.round(n / d) for d > 0: the nearest integer, a half rounded up
RoundDiv(n, d) == (2 * n + d) \div (2 * d)

\* parseFloat((x).toFixed(2)) of x = n / d, in hundredths: the nearest
\* hundredth, a half rounded away from zero
ToFixed2(n, d) ==
  IF n >= 0 THEN RoundDiv(100 * n, d) ELSE 0 - RoundDiv(100 * (0 - n), d)

\* income > 0 ? ((savings / income) * 100).toFixed(2) : 0
SavingsRate(savings, income) ==
  IF income > 0 THEN ToFixed2(100 * savings, income) ELSE 0

\* a plausible slip: breaking even is reported as overspent
MonthlySavingsBody_StrictVerdict(month, totalIncome, totalExpenses) ==
  LET savings == totalIncome - totalExpenses
  IN  [month         |-> month,
       totalIncome   |-> totalIncome,
       totalExpenses |-> totalExpenses,
       savings       |-> savings,
       savingsRate   |-> SavingsRate(savings, totalIncome),
       summary       |-> IF savings > 0 THEN "positive savings" ELSE "overspent"]

MonthlySavingsBody(month, totalIncome, totalExpenses) ==
  LET savings == totalIncome - totalExpenses
  IN  [month         |-> month,
       totalIncome   |-> totalIncome,
       totalExpenses |-> totalExpenses,
       savings       |-> savings,
       savingsRate   |-> SavingsRate(savings, totalIncome),
       summary       |-> IF savings >= 0 THEN "positive savings" ELSE "overspent"]

MonthlySavingsResponse(incomeDoc, entriesDoc, month) ==
  [status |-> 200, error |-> "none",
   body   |-> MonthlySavingsBody(month, GetMonthlyIncome(incomeDoc, month),
                                 CalculateMonthlyExpenses(entriesDoc, month))]

MonthlySavings(u, month) ==
  /\ pc = "idle"
  /\ req' = [op |-> "monthlySavings", user |-> u, month |-> month]
  /\ res' = MonthlySavingsResponse(userIncome[u], userEntries[u], month)
  /\ pc' = "responded"
  /\ UNCHANGED <<userIncome, userBudgets, userEntries, chat, reassignments, pending>>

\* monthlyData: one row pushed per month, in the order of the months array
\* (first a plausible slip: the loop over the months stops one short)
YearlyRows_ElevenMonths(incomeDoc, entriesDoc, year) ==
  [i \in 1 .. MonthsPerYear - 1 |->
     LET month    == YearMonth(year, i)
         income   == GetMonthlyIncome(incomeDoc, month)
         expenses == CalculateMonthlyExpenses(entriesDoc, month)
     IN  [month       |-> month,
          income      |-> income,
          expenses    |-> expenses,
          savings     |-> income - expenses,
          savingsRate |-> SavingsRate(income - expenses, income)]]

YearlyRows(incomeDoc, entriesDoc, year) ==
  [i \in 1 .. MonthsPerYear |->
     LET month    == YearMonth(year, i)
         income   == GetMonthlyIncome(incomeDoc, month)
         expenses == CalculateMonthlyExpenses(entriesDoc, month)
     IN  [month       |-> month,
          income      |-> income,
          expenses    |-> expenses,
          savings     |-> income - expenses,
          savingsRate |-> SavingsRate(income - expenses, income)]]

\* totalYearlyIncome += monthlyIncome, over the first n rows
RECURSIVE TotalYearlyIncome(_, _)
TotalYearlyIncome(rows, n) ==
  IF n = 0 THEN 0 ELSE TotalYearlyIncome(rows, n - 1) + rows[n].income

\* totalYearlyExpenses += monthlyExpenses, over the first n rows
RECURSIVE TotalYearlyExpenses(_, _)
TotalYearlyExpenses(rows, n) ==
  IF n = 0 THEN 0 ELSE TotalYearlyExpenses(rows, n - 1) + rows[n].expenses

\* monthlyData.filter(m => m.income > 0 || m.expenses > 0)
\* a plausible slip: a month that only has expenses is not counted
MonthsWithData_IncomeOnly(rows) ==
  {i \in DOMAIN rows : rows[i].income > 0}
MonthsWithData(rows) ==
  {i \in DOMAIN rows : rows[i].income > 0 \/ rows[i].expenses > 0}

\* monthlyData.reduce((best, current) => current.savings > best.savings ? current : best)
\* a plausible slip: a later month of equal savings displaces the best
RECURSIVE BestSavingsMonth_LastWins(_, _)
BestSavingsMonth_LastWins(rows, n) ==
  IF n = 1 THEN rows[1]
  ELSE LET best == BestSavingsMonth_LastWins(rows, n - 1)
       IN  IF rows[n].savings >= best.savings THEN rows[n] ELSE best
RECURSIVE BestSavingsMonth(_, _)
BestSavingsMonth(rows, n) ==
  IF n = 1 THEN rows[1]
  ELSE LET best == BestSavingsMonth(rows, n - 1)
       IN  IF rows[n].savings > best.savings THEN rows[n] ELSE best

\* monthlyData.reduce((worst, current) => current.savings < worst.savings ? current : worst)
RECURSIVE WorstSavingsMonth(_, _)
WorstSavingsMonth(rows, n) ==
  IF n = 1 THEN rows[1]
  ELSE LET worst == WorstSavingsMonth(rows, n - 1)
       IN  IF rows[n].savings < worst.savings THEN rows[n] ELSE worst

ConsistentSaverMonths == 9

YearlySavingsBody(year, rows) ==
  LET totalIncome   == TotalYearlyIncome(rows, Len(rows))
      totalExpenses == TotalYearlyExpenses(rows, Len(rows))
      totalSavings  == totalIncome - totalExpenses
      active        == Cardinality(MonthsWithData(rows))
      \* avgMonthlyIncome - avgMonthlyExpenses, over the months with data, in exact
      \* arithmetic (the floating-point difference is within a rounding error of it)
      avgSavings    == IF active > 0 THEN RoundDiv(totalIncome - totalExpenses, active)
                       ELSE 0
  IN  [year    |-> year,
       summary |-> [totalIncome        |-> totalIncome,
                    totalExpenses      |-> totalExpenses,
                    totalSavings       |-> totalSavings,
                    averageSavingsRate |-> SavingsRate(totalSavings, totalIncome),
                    monthsWithData     |-> active],
       averages |-> [monthlyIncome   |-> IF active > 0 THEN RoundDiv(totalIncome, active)
                                         ELSE 0,
                     monthlyExpenses |-> IF active > 0 THEN RoundDiv(totalExpenses, active)
                                         ELSE 0,
                     monthlySavings  |-> avgSavings],
       monthlyBreakdown |-> rows,
       insights |-> [bestSavingsMonth  |-> BestSavingsMonth(rows, Len(rows)),
                     worstSavingsMonth |-> WorstSavingsMonth(rows, Len(rows)),
                     consistentSaver   |->
                       Cardinality({i \in DOMAIN rows : rows[i].savings > 0})
                         >= ConsistentSaverMonths]]

YearlySavingsResponse(incomeDoc, entriesDoc, year) ==
  [status |-> 200, error |-> "none",
   body   |-> YearlySavingsBody(year, YearlyRows(incomeDoc, entriesDoc, year))]

YearlySavings(u, year) ==
  /\ pc = "idle"
  /\ req' = [op |-> "yearlySavings", user |-> u, year |-> year]
  /\ res' = YearlySavingsResponse(userIncome[u], userEntries[u], year)
  /\ pc' = "responded"
  /\ UNCHANGED <<userIncome, userBudgets, userEntries, chat, reassignments, pending>>

(***************************************************************************)
(* POST /chat: the orchestrator (routes/chat.js) over the chat service     *)
(* (services/chatService.js).  The downstream calls are requests to the    *)
(* server's own handlers, made for the user of the chat request.           *)
(***************************************************************************)
SupportedIntents ==
  {"getSpending", "getBudget", "getRemainingBudget", "getSavings", "getYearlySavings",
   "getSavingsSummary", "getIncome", "getAllIncome", "getAllBudgets", "addEntries",
   "createBudget", "setIncome", "updateIncome", "deleteIncome", "reassignBudget",
   "deleteBudget", "deleteEntries", "deleteEntry"}

ClarificationReply == "I don't understand that question. You can ask me about your own financial data"
ApologyReply == "I'm sorry, I couldn't process that information right now."
FallbackReply == "I couldn't find that information. Can you try again?"
GeneratedReply == "generated reply"

NoChat ==
  [state |-> "NONE", intents |-> <<>>, branch |-> <<>>, outcome |-> <<>>,
   results |-> <<>>, stageError |-> FALSE]

\* an intent {intent, parameters}; the parameters an intent does not use are
\* absent in the code and hold these defaults here
NoParameters == [month |-> "none", day |-> "none", entries |-> <<>>,
                 body |-> [hasTotal |-> FALSE, total |-> 0, categories |-> EmptyObj]]

UnknownIntent == [intent |-> "unknown", parameters |-> NoParameters]

\* the entries and budget bodies an intent carries
ChatEntries(used) == {e \in Entries : e.id \notin used /\ e.code = "FOD" /\ e.amount = 1}

ChatBudgetBodies ==
  {b \in BudgetBodies : ~b.hasTotal \/ (b.total = 1 /\ b.categories = EmptyObj)}

\* the intents the resolver may name: three supported operations, the
\* sentinel, and a name outside the supported set
ChatIntents(used) ==
  {[intent |-> "getRemainingBudget", parameters |-> [NoParameters EXCEPT !.month = m]] :
     m \in BudgetMonths}
  \cup {[intent |-> "addEntries",
         parameters |-> [NoParameters EXCEPT !.month = "2024-01", !.day = "01",
                                             !.entries = <<e>>]] : e \in ChatEntries(used)}
  \cup {[intent |-> "createBudget",
         parameters |-> [NoParameters EXCEPT !.month = m, !.body = b]] :
          m \in BudgetMonths, b \in ChatBudgetBodies}
  \cup {UnknownIntent, [intent |-> "exportData", parameters |-> NoParameters]}

\* ordered intent lists; no two intents of a list carry the same entry
IntentLists(used) ==
  {l \in UNION {[1 .. n -> ChatIntents(used)] : n \in 0 .. MaxIntents} :
     \A i, j \in DOMAIN l :
       i # j => SeqIds(l[i].parameters.entries) \cap SeqIds(l[j].parameters.entries) = {}}

\* what the completion of the intent prompt amounts to: the call fails, the
\* content holds no usable JSON, it holds {intents: [...]}, or it holds the
\* old format {intent, parameters}
LlmIntentOutcomes(used) ==
  {[kind |-> "error", intents |-> <<>>], [kind |-> "garbage", intents |-> <<>>]}
  \cup {[kind |-> "intents", intents |-> l] : l \in IntentLists(used)}
  \cup {[kind |-> "single", intents |-> <<i>>] : i \in ChatIntents(used)}

ExtractIntent(o) ==
  IF o.kind = "intents" THEN o.intents
  ELSE IF o.kind = "single" THEN <<o.intents[1]>>
  ELSE <<UnknownIntent>>

ChatReceive(u, hasMessage) ==
  /\ pc = "idle"
  /\ req' = [op |-> "chat", user |-> u, hasMessage |-> hasMessage]
  /\ IF ~hasMessage
       THEN /\ res' = Response(400, "message is required")
            /\ pc' = "responded"
            /\ chat' = chat
       ELSE /\ res' = NoRes
            /\ pc' = "chat"
            /\ chat' = [NoChat EXCEPT !.state = "RECEIVED"]
  /\ UNCHANGED <<userIncome, userBudgets, userEntries, reassignments, pending>>

\* const intentData = await extractIntent(message)
ChatExtract ==
  /\ pc = "chat" /\ chat.state = "RECEIVED"
  /\ \E o \in LlmIntentOutcomes(DocIds(userEntries[req.user])) :
       chat' = [chat EXCEPT !.state = "INTENTS_EXTRACTED", !.intents = ExtractIntent(o)]
  /\ UNCHANGED <<userIncome, userBudgets, userEntries, pc, req, res, reassignments, pending>>

NoValidIntent_EmptyOnly(intents) ==
  Len(intents) = 0

NoValidIntent(intents) ==
  Len(intents) = 0 \/ (Len(intents) = 1 /\ intents[1].intent = "unknown")

ChatRejectResponse ==
  [status |-> 400, error |-> "No valid intent could be determined from your question",
   reply |-> ClarificationReply]

ChatReject ==
  /\ pc = "chat" /\ chat.state = "INTENTS_EXTRACTED"
  /\ NoValidIntent(chat.intents)
  /\ chat' = [chat EXCEPT !.state = "REJECTED_NO_INTENT"]
  /\ res' = ChatRejectResponse
  /\ pc' = "responded"
  /\ UNCHANGED <<userIncome, userBudgets, userEntries, req, reassignments, pending>>

Supported(i) == i.intent \in SupportedIntents

\* catch (error) { results.push({intent, data: {error: true, message}, success: false}) }
FailedResult(k, message) ==
  [intent |-> k, data |-> [error |-> TRUE, message |-> message], success |-> FALSE]

\* a branch whose switch falls to `default: throw` runs to its push before
\* the map goes on to the next intent
RECURSIVE SyncResults(_, _)
SyncResults(intents, n) ==
  IF n = 0 THEN <<>>
  ELSE SyncResults(intents, n - 1)
       \o (IF Supported(intents[n]) THEN <<>>
           ELSE <<FailedResult(n, "Unsupported intent")>>)

\* Promise.all(intentData.intents.map(async (intent) => ...)): every branch
\* runs up to its first await
ChatDispatch ==
  /\ pc = "chat" /\ chat.state = "INTENTS_EXTRACTED"
  /\ ~NoValidIntent(chat.intents)
  /\ chat' = [chat EXCEPT
                !.state   = "DISPATCHING",
                !.branch  = [k \in DOMAIN chat.intents |->
                               IF Supported(chat.intents[k]) THEN "calling" ELSE "done"],
                !.outcome = [k \in DOMAIN chat.intents |-> NoRes],
                !.results = SyncResults(chat.intents, Len(chat.intents))]
  /\ UNCHANGED <<userIncome, userBudgets, userEntries, pc, req, res, reassignments, pending>>

\* the response of the handler the intent is sent to
DownstreamResponse(i, u) ==
  IF i.intent = "getRemainingBudget"
    THEN RemainingResponse(userBudgets[u], userEntries[u], i.parameters.month)
  ELSE IF i.intent = "addEntries" THEN AddEntriesValidation(i.parameters.entries)
  ELSE SetBudgetValidation(i.parameters.body)

DownstreamEntries_Dropped(i, v, doc) ==
  doc

DownstreamEntries(i, v, doc) ==
  IF i.intent = "addEntries" /\ v.status = 201
    THEN AddEntriesStore(doc, i.parameters.month, i.parameters.day, i.parameters.entries)
    ELSE doc

DownstreamBudgets(i, v, doc) ==
  IF i.intent = "createBudget" /\ v.status = 201
    THEN SetBudgetStore(doc, i.parameters.month, i.parameters.body)
    ELSE doc

\* responseData = await axios...: the handler serves the request of branch k
ChatCall(k) ==
  /\ pc = "chat" /\ chat.state = "DISPATCHING"
  /\ k \in DOMAIN chat.branch /\ chat.branch[k] = "calling"
  /\ LET i == chat.intents[k]
         u == req.user
         v == DownstreamResponse(i, u)
     IN  /\ userEntries' = [userEntries EXCEPT ![u] = DownstreamEntries(i, v, userEntries[u])]
         /\ userBudgets' = [userBudgets EXCEPT ![u] = DownstreamBudgets(i, v, userBudgets[u])]
         /\ chat' = [chat EXCEPT !.branch[k] = "answered", !.outcome[k] = v]
  /\ UNCHANGED <<userIncome, pc, req, res, reassignments, pending>>

NetworkError == [status |-> 0, error |-> "network error"]

\* the call of branch k is rejected without an answer of the handler
ChatCallFails(k) ==
  /\ pc = "chat" /\ chat.state = "DISPATCHING"
  /\ k \in DOMAIN chat.branch /\ chat.branch[k] = "calling"
  /\ chat' = [chat EXCEPT !.branch[k] = "answered", !.outcome[k] = NetworkError]
  /\ UNCHANGED <<userIncome, userBudgets, userEntries, pc, req, res, reassignments, pending>>

\* axios resolves for a 2xx status and rejects otherwise
Succeeded(v) == v.status \in 200 .. 299

AxiosMessage(v) ==
  IF v.status = 0 THEN "Network Error"
  ELSE IF v.status = 404 THEN "Request failed with status code 404"
  ELSE "Request failed with status code 400"

BranchResult_AlwaysSuccess(k, v) ==
  [intent |-> k, data |-> v, success |-> TRUE]

BranchResult(k, v) ==
  IF Succeeded(v) THEN [intent |-> k, data |-> v, success |-> TRUE]
  ELSE FailedResult(k, AxiosMessage(v))

\* the continuation of branch k: results.push(...), with the intent it holds
\* as the index k of that intent
ChatSettle(k) ==
  /\ pc = "chat" /\ chat.state = "DISPATCHING"
  /\ k \in DOMAIN chat.branch /\ chat.branch[k] = "answered"
  /\ chat' = [chat EXCEPT !.branch[k] = "done",
                          !.results = Append(chat.results, BranchResult(k, chat.outcome[k]))]
  /\ UNCHANGED <<userIncome, userBudgets, userEntries, pc, req, res, reassignments, pending>>

AllSettled == \A k \in DOMAIN chat.branch : chat.branch[k] = "done"

\* Promise.all has resolved; the phrasing call is made on the results
ChatAggregate ==
  /\ pc = "chat" /\ chat.state = "DISPATCHING" /\ AllSettled
  /\ chat' = [chat EXCEPT !.state = "AGGREGATED"]
  /\ UNCHANGED <<userIncome, userBudgets, userEntries, pc, req, res, reassignments, pending>>

\* catch (apiError): an exception of the dispatch stage outside the branches'
\* own try blocks; the phrasing call is made on the error
ChatStageRaises ==
  /\ pc = "chat" /\ chat.state = "DISPATCHING" /\ AllSettled
  /\ chat' = [chat EXCEPT !.state = "AGGREGATED", !.stageError = TRUE]
  /\ UNCHANGED <<userIncome, userBudgets, userEntries, pc, req, res, reassignments, pending>>

\* the completion of a phrasing prompt: a text, a text that is empty once
\* the thinking tags are removed, or a failed call
PhrasingOutcomes == {"text", "empty", "error"}

GenerateResponse(p) ==
  IF p = "error" THEN ApologyReply ELSE IF p = "empty" THEN "" ELSE GeneratedReply

GenerateMultiResponse(p) ==
  IF p = "error" THEN ApologyReply ELSE IF p = "empty" THEN "" ELSE GeneratedReply

\* results.length === 1 ? results[0].data : {result1: ..., result2: ...}
CombinedData(intents, results) ==
  IF Len(results) = 1 THEN results[1].data
  ELSE [i \in DOMAIN results |->
          [intent |-> intents[results[i].intent].intent, data |-> results[i].data]]

ChatReplyResponse_PhrasingFatal(c, p) ==
  IF p = "error"
    THEN [status |-> 500, error |-> "Failed to process chat request", reply |-> ApologyReply]
  ELSE IF c.stageError
    THEN [status  |-> 400,
          error   |-> "dispatch stage failed",
          reply   |-> IF GenerateResponse(p) = "" THEN FallbackReply ELSE GenerateResponse(p),
          intents |-> c.intents]
  ELSE [status  |-> 200,
        error   |-> "none",
        reply   |-> IF Len(c.results) = 1 THEN GenerateResponse(p)
                    ELSE GenerateMultiResponse(p),
        intents |-> c.intents,
        data    |-> CombinedData(c.intents, c.results)]

ChatReplyResponse(c, p) ==
  IF c.stageError
    THEN [status  |-> 400,
          error   |-> "dispatch stage failed",
          reply   |-> IF GenerateResponse(p) = "" THEN FallbackReply ELSE GenerateResponse(p),
          intents |-> c.intents]
  ELSE [status  |-> 200,
        error   |-> "none",
        reply   |-> IF Len(c.results) = 1 THEN GenerateResponse(p)
                    ELSE GenerateMultiResponse(p),
        intents |-> c.intents,
        data    |-> CombinedData(c.intents, c.results)]

\* the phrasing call has settled; the response is sent
ChatReply ==
  /\ pc = "chat" /\ chat.state = "AGGREGATED"
  /\ \E p \in PhrasingOutcomes : res' = ChatReplyResponse(chat, p)
  /\ chat' = [chat EXCEPT !.state = "REPLIED"]
  /\ pc' = "responded"
  /\ UNCHANGED <<userIncome, userBudgets, userEntries, req, reassignments, pending>>

(***************************************************************************)
(* The response has been sent; the server waits for the next request.      *)
(***************************************************************************)
Finish ==
  /\ pc = "responded"
  /\ pc' = "idle"
  /\ req' = NoReq
  /\ res' = NoRes
  /\ chat' = NoChat
  /\ UNCHANGED <<userIncome, userBudgets, userEntries, reassignments, pending>>

Init ==
  /\ userIncome = [u \in Users |-> NoDoc]
  /\ userBudgets = [u \in Users |-> [exists |-> FALSE, budgets |-> EmptyObj]]
  /\ userEntries = [u \in Users |-> [exists |-> FALSE, months |-> EmptyObj]]
  /\ pc = "idle"
  /\ req = NoReq
  /\ res = NoRes
  /\ chat = NoChat
  /\ reassignments = EmptyBag
  /\ pending = NoPending

IncomeNext ==
  \/ \E u \in Users, m \in Months, b \in IncomeBodies : SetIncome(u, m, b)
  \/ \E u \in Users, m \in Months, b \in IncomeBodies : UpdateIncome(u, m, b)
  \/ \E u \in Users, m \in Months : DeleteIncome(u, m)
  \/ \E u \in Users, m \in Months : GetIncome(u, m)
  \/ Finish

SpecIncome == Init /\ [][IncomeNext]_vars

BudgetNext ==
  \/ \E u \in Users, m \in BudgetMonths, b \in BudgetBodies : SetBudget(u, m, b)
  \/ \E u \in Users, m \in Months, d \in Days :
       \E es \in EntryBatches(DocIds(userEntries[u])) : AddEntries(u, m, d, es)
  \/ \E u \in Users, m \in Months : Remaining(u, m)
  \/ \E u \in Users, m \in Months : GetBudget(u, m)
  \/ Finish

SpecBudget == Init /\ [][BudgetNext]_vars

\* the income a month declares matters to the savings engine by its total only
SavingsIncomeBodies == {b \in IncomeBodies : ~b.hasSources}

SavingsNext ==
  \/ \E u \in Users, m \in Months, b \in SavingsIncomeBodies : SetIncome(u, m, b)
  \/ \E u \in Users, m \in Months, d \in Days :
       \E es \in EntryBatches(DocIds(userEntries[u])) : AddEntries(u, m, d, es)
  \/ \E u \in Users, m \in Months : MonthlySavings(u, m)
  \/ \E u \in Users, y \in Years : YearlySavings(u, y)
  \/ Finish

SpecSavings == Init /\ [][SavingsNext]_vars

ChatProgress ==
  \/ ChatExtract
  \/ ChatReject
  \/ ChatDispatch
  \/ \E k \in 1 .. MaxIntents : ChatCall(k)
  \/ \E k \in 1 .. MaxIntents : ChatCallFails(k)
  \/ \E k \in 1 .. MaxIntents : ChatSettle(k)
  \/ ChatAggregate
  \/ ChatStageRaises
  \/ ChatReply

ChatNext ==
  \/ \E u \in Users, hasMessage \in BOOLEAN : ChatReceive(u, hasMessage)
  \/ ChatProgress
  \/ Finish

SpecChat == Init /\ [][ChatNext]_vars

\* every call to the language model and every downstream call settles
SpecChatLive == SpecChat /\ WF_vars(ChatProgress)

(***************************************************************************)
(* Properties of the budget reconciliation engine                          *)
(***************************************************************************)
RemainingAnswered == pc = "responded" /\ req.op = "remaining" /\ res.status = 200

BudgetAsked == userBudgets[req.user].budgets[req.month]

EntriesAsked == MonthlyEntries(userEntries[req.user], req.month)

\* C2: in every result of remaining, totalRemaining = budget.total -
\* totalSpent, and totalSpent is the sum of the values of the returned
\* per-category spend mapping (expensesByCategory with its MIS key).
C2_TotalsReconcile ==
  RemainingAnswered =>
    /\ res.body.totalRemaining = BudgetAsked.total - res.body.totalSpent
    /\ res.body.totalSpent = SumValues(res.body.expensesByCategory)

\* C3: remaining accumulates every entry into the bucket of this rule: the
\* entry's code if it is a key of budget.categories (whatever the amount
\* allocated to it), else the taxonomy parent of the code if that is a key
\* of budget.categories, else the miscellaneous spend bucket.
C3_RuleBucket(categories, code) ==
  IF code \in DOMAIN categories THEN code
  ELSE IF ParentOf(code) \in DOMAIN categories THEN ParentOf(code)
  ELSE MiscAccumulator

RECURSIVE C3_SeqRuleSpend(_, _, _)
C3_SeqRuleSpend(categories, es, bucket) ==
  IF es = <<>> THEN 0
  ELSE (IF C3_RuleBucket(categories, Head(es).code) = bucket THEN Head(es).amount ELSE 0)
       + C3_SeqRuleSpend(categories, Tail(es), bucket)

RECURSIVE C3_RuleSpend(_, _, _)
C3_RuleSpend(categories, monthly, bucket) ==
  IF DOMAIN monthly = {} THEN 0
  ELSE LET d == CHOOSE x \in DOMAIN monthly : TRUE
       IN  C3_SeqRuleSpend(categories, monthly[d].entries, bucket)
           + C3_RuleSpend(categories, [x \in DOMAIN monthly \ {d} |-> monthly[x]], bucket)

C3_EntriesGoToRuleBucket ==
  RemainingAnswered =>
    LET categories == BudgetAsked.categories
    IN  /\ \A c \in DOMAIN categories :
             SpentOr0(ExpensesByCategory(categories, EntriesAsked), c)
               = C3_RuleSpend(categories, EntriesAsked, c)
        /\ MiscellaneousExpenses(categories, EntriesAsked)
             = C3_RuleSpend(categories, EntriesAsked, MiscAccumulator)

\* C4: in every result of remaining, remaining[c] = allocated[c] - spent[c]
\* for every declared category c (spent defaulting to 0) and remaining['MIS']
\* = (budget.total - sum of the allocated amounts) - miscellaneous spend,
\* unclamped; and the budget {total 3000, FOD 1000, HOU-RENT 1500} with the
\* entries FOD-GRO 300 and TRN-FUEL 200 gives spent.FOD 300, spent.MIS 200,
\* remaining.FOD 700, remaining.HOU-RENT 1500, remaining.MIS 300 and
\* totalRemaining 2500.
C4_ScenarioBody ==
  RemainingBody("2024-01",
    [total |-> 3000, categories |-> [k \in {"FOD", "HOU-RENT"} |->
                                       IF k = "FOD" THEN 1000 ELSE 1500]],
    [d \in {"01"} |-> [entries |->
       << [id |-> "e1", code |-> "FOD-GRO", amount |-> 300],
          [id |-> "e2", code |-> "TRN-FUEL", amount |-> 200] >>]])

C4_Scenario ==
  /\ C4_ScenarioBody.expensesByCategory["FOD"] = 300
  /\ C4_ScenarioBody.expensesByCategory["MIS"] = 200
  /\ C4_ScenarioBody.remainingBudgets["FOD"] = 700
  /\ C4_ScenarioBody.remainingBudgets["HOU-RENT"] = 1500
  /\ C4_ScenarioBody.remainingBudgets["MIS"] = 300
  /\ C4_ScenarioBody.totalRemaining = 2500

C4_RemainingPerCategory ==
  RemainingAnswered =>
    LET categories == BudgetAsked.categories
        spent      == res.body.expensesByCategory
        remaining  == res.body.remainingBudgets
    IN  /\ \A c \in DOMAIN categories :
             c \in DOMAIN remaining /\ remaining[c] = categories[c] - SpentOr0(spent, c)
        /\ remaining["MIS"] = (BudgetAsked.total - SumValues(categories)) - spent["MIS"]
        /\ C4_Scenario

\* C5: remaining answers 404 whenever no budget is stored for the month asked,
\* whatever entries the month has, and in every case leaves the stored
\* budgets, entries and income unchanged.
C5_RemainingNotFoundNoEffect ==
  [][pc' = "responded" /\ req'.op = "remaining" =>
       /\ (req'.month \notin DOMAIN userBudgets[req'.user].budgets) => res'.status = 404
       /\ UNCHANGED <<userBudgets, userEntries, userIncome>>]_vars

C5_Witness ==
  /\ pc = "responded" /\ req.op = "remaining" /\ res.status = 404
  /\ userBudgets[req.user].exists
  /\ DOMAIN userBudgets[req.user].budgets # {}
  /\ DOMAIN EntriesAsked # {}

(***************************************************************************)
(* Properties of the income envelope writer                                *)
(***************************************************************************)
IncomeOf(u) == userIncome[u].income

IsIncomeStep(op) == pc' = "responded" /\ req'.op = op

\* C1: after any sequence of successful setIncome/updateIncome operations,
\* every stored income record has sum(sources.values()) = total, whatever
\* the names of the source keys.
C1_SourcesSumToTotal ==
  \A u \in Users : \A m \in DOMAIN IncomeOf(u) :
    SumValues(IncomeOf(u)[m].sources) = IncomeOf(u)[m].total

\* C6: a setIncome whose sources sum to more than total, or with a negative
\* total or a negative source value, is rejected as a validation failure
\* (an overflow alone as "sources exceed total"), and a rejected setIncome
\* leaves the stored income exactly as it was.
C6_Rejected(r) ==
  \/ r.hasTotal /\ r.total < 0
  \/ r.hasSources /\ \E k \in DOMAIN r.sources : r.sources[k] < 0
  \/ r.hasTotal /\ r.hasSources /\ SumValues(r.sources) > r.total

C6_OverflowOnly(r) ==
  /\ r.hasTotal /\ r.total >= 0 /\ r.hasSources
  /\ \A k \in DOMAIN r.sources : r.sources[k] >= 0
  /\ SumValues(r.sources) > r.total

C6_SetIncomeRejectsOverflow ==
  [][IsIncomeStep("setIncome") =>
       /\ C6_Rejected(req') => res'.status = 400
       /\ C6_OverflowOnly(req') => res'.error = "sources exceed total"
       /\ res'.status = 400 => userIncome' = userIncome]_vars

C6_Witness ==
  /\ pc = "responded" /\ req.op = "setIncome"
  /\ res.status = 400 /\ res.error = "sources exceed total"
  /\ req.month \in DOMAIN IncomeOf(req.user)
  /\ IncomeOf(req.user)[req.month].total # req.total

\* C7: a successful setIncome stores as sources {main: total} when sources is
\* omitted, the given sources unchanged (no miscellaneous key added) when they
\* sum to total, and the given sources with miscellaneous set to
\* total - sum(sources) when they sum to less than total.
C7_Stored(r, s) ==
  /\ ~r.hasSources => s = [main |-> r.total]
  /\ r.hasSources /\ SumValues(r.sources) = r.total => s = r.sources
  /\ r.hasSources /\ SumValues(r.sources) < r.total =>
       /\ DOMAIN s = DOMAIN r.sources \cup {"miscellaneous"}
       /\ s["miscellaneous"] = r.total - SumValues(r.sources)
       /\ \A k \in DOMAIN r.sources \ {"miscellaneous"} : s[k] = r.sources[k]

C7_SetIncomeStoredSources ==
  [][IsIncomeStep("setIncome") /\ res'.status = 201 =>
       /\ req'.month \in DOMAIN userIncome'[req'.user].income
       /\ C7_Stored(req', userIncome'[req'.user].income[req'.month].sources)]_vars

C7_Witness ==
  /\ pc = "responded" /\ req.op = "setIncome" /\ res.status = 201
  /\ req.hasSources /\ "salary" \in DOMAIN req.sources
  /\ SumValues(req.sources) < req.total
  /\ IncomeOf(req.user)[req.month].sources =
       [salary |-> req.sources["salary"],
        miscellaneous |-> req.total - req.sources["salary"]]

\* C8: setIncome is an idempotent upsert: the record it stores is determined
\* by the request alone (nothing of the record stored before survives),
\* applying the same request again leaves the store as it is, and the records
\* of all other months are unchanged.
C8_SetIncomeIdempotentUpsert ==
  [][IsIncomeStep("setIncome") /\ res'.status = 201 =>
       LET u    == req'.user
           m    == req'.month
           new  == userIncome'[u].income
       IN  /\ DOMAIN new = DOMAIN userIncome[u].income \cup {m}
           /\ \A k \in DOMAIN new \ {m} : new[k] = userIncome[u].income[k]
           /\ new[m].total = req'.total
           /\ DOMAIN new[m].sources \subseteq
                IF req'.hasSources THEN DOMAIN req'.sources \cup {"miscellaneous"}
                ELSE {"main"}
           /\ SetIncomeValidation(req').status = 201
           /\ SetIncomeStore(userIncome'[u], req') = userIncome'[u]]_vars

C8_Witness ==
  /\ pc = "responded" /\ req.op = "setIncome" /\ res.status = 201
  /\ ~req.hasSources
  /\ \E m \in DOMAIN IncomeOf(req.user) :
       m # req.month /\ "salary" \in DOMAIN IncomeOf(req.user)[m].sources

\* C9: updateIncome is rejected for missing input exactly when neither total
\* nor sources is present in the request.
C9_MissingIffNeitherGiven ==
  pc = "responded" /\ req.op = "updateIncome" =>
    (res.error = "total or sources required" <=> ~req.hasTotal /\ ~req.hasSources)

\* C10: updateIncome on a month with no stored income record never succeeds,
\* answers NotFound unless the request body itself is rejected by the input
\* validation that precedes the lookup, creates no record and leaves every
\* stored income record unchanged.
InputErrors == {"total or sources required", "total negative", "source negative"}

C11_OnlyTotal(m) ==
  /\ IsIncomeStep("updateIncome")
  /\ req'.month = m /\ m \in DOMAIN userIncome[req'.user].income
  /\ req'.hasTotal /\ ~req'.hasSources /\ req'.total >= 0

C11_UpdateTotalBelowSources ==
  [][\A m \in Months :
       C11_OnlyTotal(m)
         /\ SumValues(userIncome[req'.user].income[m].sources) > req'.total =>
       /\ res'.status = 400
       /\ res'.error = "sources exceed total"
       /\ userIncome' = userIncome]_vars

\* C12: updateIncome with only total = t given, when the existing stored
\* sources sum to s <= t, leaves stored the total t and, as sources, the
\* existing sources with miscellaneous set to t - s when s < t and the
\* existing sources as they were when s = t.
C12_UpdateTotalSynthesizesMisc ==
  [][\A m \in Months :
       LET old == userIncome[req'.user].income[m]
           new == userIncome'[req'.user].income[m]
           s   == SumValues(old.sources)
           t   == req'.total
       IN  C11_OnlyTotal(m) /\ s <= t =>
             /\ m \in DOMAIN userIncome'[req'.user].income
             /\ new.total = t
             /\ s = t => new.sources = old.sources
             /\ s < t =>
                  /\ DOMAIN new.sources = DOMAIN old.sources \cup {"miscellaneous"}
                  /\ new.sources["miscellaneous"] = t - s
                  /\ \A k \in DOMAIN old.sources \ {"miscellaneous"} :
                       new.sources[k] = old.sources[k]]_vars

\* the 65000/80000 scenario, scaled: salary 1 stored, total raised to 2
C12_Witness ==
  /\ pc = "responded" /\ req.op = "updateIncome" /\ res.status = 200
  /\ req.hasTotal /\ ~req.hasSources /\ req.total = 2
  /\ IncomeOf(req.user)[req.month] =
       [total |-> 2, sources |-> [salary |-> 1, miscellaneous |-> 1]]

(***************************************************************************)
(* Properties of the savings engine                                        *)
(***************************************************************************)
\* the sum of the amounts of all entries stored for a month, day by day
RECURSIVE C13_SumEntries(_, _, _)
C13_SumEntries(doc, month, days) ==
  IF days = {} THEN 0
  ELSE LET d == CHOOSE x \in days : TRUE
       IN  (IF doc.exists /\ month \in DOMAIN doc.months /\ d \in DOMAIN doc.months[month]
              THEN SeqAmount(doc.months[month][d].entries) ELSE 0)
           + C13_SumEntries(doc, month, days \ {d})

\* C13: monthlySavings never fails for missing data: it answers 200 with
\* income = the stored Income.total of the month or 0 if absent, expenses =
\* the sum of the amounts of all entries of the month or 0 if none, savings =
\* income - expenses, savingsRate 0 whenever income is 0, and the verdict
\* 'positive savings' exactly when savings >= 0 and 'overspent' otherwise.
C13_MonthlySavingsTotal ==
  pc = "responded" /\ req.op = "monthlySavings" =>
    LET u == req.user
        m == req.month
        b == res.body
    IN  /\ res.status = 200
        /\ b.totalIncome = IF m \in DOMAIN IncomeOf(u) THEN IncomeOf(u)[m].total ELSE 0
        /\ b.totalExpenses = C13_SumEntries(userEntries[u], m, Days)
        /\ b.savings = b.totalIncome - b.totalExpenses
        /\ b.totalIncome = 0 => b.savingsRate = 0
        /\ b.summary = "positive savings" <=> b.savings >= 0
        /\ b.summary = "overspent" <=> b.savings < 0

\* a month with entries and no income record: overspent, rate 0
C13_Witness ==
  /\ pc = "responded" /\ req.op = "monthlySavings" /\ res.status = 200
  /\ req.month \notin DOMAIN IncomeOf(req.user)
  /\ res.body.totalExpenses > 0
  /\ res.body.summary = "overspent"
  /\ res.body.savingsRate = 0

RECURSIVE C14_SumField(_, _, _)
C14_SumField(rows, field, n) ==
  IF n = 0 THEN 0 ELSE C14_SumField(rows, field, n - 1) + rows[n][field]

\* C14: the monthly breakdown of yearlySavings has exactly twelve rows, one
\* per calendar month 01..12 in ascending order, and summary.totalSavings,
\* totalIncome and totalExpenses equal the sums of the rows' savings, income
\* and expenses.
C14_YearlyRowsSumToSummary ==
  pc = "responded" /\ req.op = "yearlySavings" =>
    LET rows == res.body.monthlyBreakdown
        sum  == res.body.summary
    IN  /\ DOMAIN rows = 1 .. 12
        /\ \A i \in 1 .. 12 : rows[i].month = req.year \o "-" \o MonthNumbers[i]
        /\ sum.totalSavings = C14_SumField(rows, "savings", 12)
        /\ sum.totalIncome = C14_SumField(rows, "income", 12)
        /\ sum.totalExpenses = C14_SumField(rows, "expenses", 12)

\* a year with income in one month and an overspent other month
C14_Witness ==
  /\ pc = "responded" /\ req.op = "yearlySavings"
  /\ res.body.monthlyBreakdown[1].savings > 0
  /\ res.body.monthlyBreakdown[2].savings < 0
  /\ res.body.summary.monthsWithData = 2

(***************************************************************************)
(* Properties of the chat orchestrator                                     *)
(***************************************************************************)
\* C15: when the intent resolver returns an empty intent list, or a list of
\* exactly one entry whose intent is 'unknown', the chat request ends with a
\* 400 response carrying the fixed clarification reply, no downstream
\* operation is dispatched and no stored document changes.
C15_NoIntent ==
  \/ Len(chat.intents) = 0
  \/ Len(chat.intents) = 1 /\ chat.intents[1].intent = "unknown"

C15_NoIntentRejected ==
  [][chat.state = "INTENTS_EXTRACTED" /\ C15_NoIntent =>
       /\ chat'.state = "REJECTED_NO_INTENT"
       /\ pc' = "responded"
       /\ res'.status = 400 /\ res'.reply = ClarificationReply
       /\ chat'.branch = <<>> /\ chat'.results = <<>>
       /\ UNCHANGED <<userIncome, userBudgets, userEntries>>]_vars

\* the language model fails while the user has a budget and entries stored
C15_Witness ==
  /\ pc = "responded" /\ chat.state = "REJECTED_NO_INTENT"
  /\ chat.intents = <<UnknownIntent>>
  /\ res.status = 400 /\ res.reply = ClarificationReply
  /\ userBudgets[req.user].exists /\ userEntries[req.user].exists

\* the results collected for the k-th intent
C16_ResultsOf(k) == {i \in DOMAIN chat.results : chat.results[i].intent = k}

\* the data of a failed intent: {error: true, message}
C16_ReportsFailure(d) == "message" \in DOMAIN d

\* C16: in a chat request with N >= 1 dispatched intents exactly one result
\* {intent, data, success} is collected for every intent whatever the outcomes
\* of the others: a failing downstream call or an unsupported intent yields
\* success = false for that intent only, a step of one branch leaves the other
\* branches and the results collected so far as they are, and no outcome of a
\* branch turns the request into a failure (it is answered 200 unless the
\* dispatch stage itself raises, and never 500).
C16_PartialFailureIsolation ==
  /\ [](chat.state \in {"AGGREGATED", "REPLIED"} =>
         /\ Len(chat.results) = Len(chat.intents)
         /\ \A k \in DOMAIN chat.intents :
              /\ Cardinality(C16_ResultsOf(k)) = 1
              /\ \A i \in C16_ResultsOf(k) :
                   /\ chat.results[i].success =
                        (chat.intents[k].intent \in SupportedIntents
                           /\ chat.outcome[k].status \in {200, 201})
                   /\ C16_ReportsFailure(chat.results[i].data) = ~chat.results[i].success
         /\ chat.state = "REPLIED" =>
              /\ res.status # 500
              /\ ~chat.stageError => res.status = 200)
  /\ [][chat.state = "DISPATCHING" /\ chat'.state = "DISPATCHING" =>
          /\ Cardinality({k \in DOMAIN chat.branch : chat'.branch[k] # chat.branch[k]}) <= 1
          /\ \A k \in DOMAIN chat.branch : chat.branch[k] = "done" => chat'.branch[k] = "done"
          /\ Len(chat'.results) >= Len(chat.results)
          /\ SubSeq(chat'.results, 1, Len(chat.results)) = chat.results]_vars

\* one intent answered NotFound and one succeeding: one failure and one success
C16_Witness ==
  /\ pc = "responded" /\ chat.state = "REPLIED" /\ res.status = 200
  /\ Len(chat.intents) = 2
  /\ chat.intents[1].intent = "getRemainingBudget" /\ chat.outcome[1].status = 404
  /\ chat.intents[2].intent = "addEntries" /\ chat.outcome[2].status = 201
  /\ \E i, j \in DOMAIN res.data :
       /\ res.data[i].intent = "getRemainingBudget" /\ C16_ReportsFailure(res.data[i].data)
       /\ res.data[j].intent = "addEntries" /\ ~C16_ReportsFailure(res.data[j].data)

\* C17: in a chat request with more than one intent the combined response
\* preserves the order of the intent list: for every k, result<k> holds the
\* intent name and the data of the k-th intent the resolver returned, under
\* every completion order of the downstream calls.
C17_ResultOrderPreserved ==
  pc = "responded" /\ chat.state = "REPLIED" /\ ~chat.stageError
    /\ Len(chat.intents) > 1 =>
    \A k \in DOMAIN chat.intents :
      /\ res.data[k].intent = chat.intents[k].intent
      /\ chat.results[k].intent = k

\* C18: a chat request follows RECEIVED -> INTENTS_EXTRACTED ->
\* (REJECTED_NO_INTENT | DISPATCHING) -> AGGREGATED -> REPLIED; provided
\* every call to the language model and every downstream call settles, every
\* request sends exactly one response (it sends one, and after it nothing but
\* the end of the request follows), and once intents were extracted the
\* response is a 200 or a 400 with a reply, never a 500, whatever the
\* downstream calls, the dispatch stage and the phrasing call did.
C18_Transitions ==
  {<<"NONE", "RECEIVED">>, <<"RECEIVED", "INTENTS_EXTRACTED">>,
   <<"INTENTS_EXTRACTED", "REJECTED_NO_INTENT">>, <<"INTENTS_EXTRACTED", "DISPATCHING">>,
   <<"DISPATCHING", "AGGREGATED">>, <<"AGGREGATED", "REPLIED">>,
   <<"REJECTED_NO_INTENT", "NONE">>, <<"REPLIED", "NONE">>}

C18_ChatAlwaysReplies ==
  /\ [][chat'.state # chat.state => <<chat.state, chat'.state>> \in C18_Transitions]_vars
  /\ [][pc = "responded" => pc' = "idle" /\ chat'.state = "NONE"]_vars
  /\ [](chat.state \in {"REJECTED_NO_INTENT", "REPLIED"} =>
          /\ pc = "responded"
          /\ res.status \in {200, 400}
          /\ "reply" \in DOMAIN res)
  /\ [](pc = "responded" /\ req.op = "chat" /\ req.hasMessage =>
          chat.state \in {"REJECTED_NO_INTENT", "REPLIED"})
  /\ (chat.state = "RECEIVED" ~> pc = "responded")

\* the dispatch stage raised and the phrasing call failed as well
C18_Witness ==
  /\ pc = "responded" /\ chat.state = "REPLIED" /\ chat.stageError
  /\ \E k \in DOMAIN chat.outcome : chat.outcome[k] = NetworkError
  /\ res.status = 400 /\ res.reply = ApologyReply

\* C19: there is no atomicity across the intents of one chat request: when a
\* mutating intent A (addEntries) succeeds and another intent B (createBudget)
\* fails in the same request, A's stored effect is still present when the
\* response has been sent, B's call has changed nothing, and the response
\* reports A as succeeded and B as failed.
C19_NoAtomicityAcrossIntents ==
  /\ [](pc = "responded" /\ chat.state = "REPLIED" =>
          \A k \in DOMAIN chat.intents :
            chat.intents[k].intent = "addEntries" /\ chat.outcome[k].status = 201 =>
              SeqIds(chat.intents[k].parameters.entries)
                \subseteq DocIds(userEntries[req.user]))
  /\ [][\A k \in DOMAIN chat.branch :
          chat.branch[k] = "calling" /\ chat'.branch[k] = "answered"
            /\ chat'.outcome[k].status \notin {200, 201} =>
          UNCHANGED <<userIncome, userBudgets, userEntries>>]_vars
  /\ [](pc = "responded" /\ chat.state = "REPLIED" /\ ~chat.stageError
          /\ Len(chat.intents) > 1 =>
          \A k \in DOMAIN chat.intents :
            \E i \in DOMAIN res.data :
              /\ res.data[i].intent = chat.intents[k].intent
              /\ C16_ReportsFailure(res.data[i].data) =
                   (chat.outcome[k].status \notin {200, 201}))

\* addEntries stored its entry, createBudget was refused, no budget exists
C19_Witness ==
  /\ pc = "responded" /\ chat.state = "REPLIED" /\ res.status = 200
  /\ Len(chat.intents) = 2
  /\ chat.intents[1].intent = "addEntries" /\ chat.outcome[1].status = 201
  /\ chat.intents[2].intent = "createBudget" /\ chat.outcome[2].status = 400
  /\ SeqIds(chat.intents[1].parameters.entries) \subseteq DocIds(userEntries[req.user])
  /\ ~userBudgets[req.user].exists
  /\ \E i, j \in DOMAIN res.data :
       /\ res.data[i].intent = "addEntries" /\ ~C16_ReportsFailure(res.data[i].data)
       /\ res.data[j].intent = "createBudget" /\ C16_ReportsFailure(res.data[j].data)

(***************************************************************************)
(* Not-found propagation                                                   *)
(***************************************************************************)
C20_IncomeOps == {"getIncome", "updateIncome", "deleteIncome"}
C20_BudgetOps == {"getBudget", "remaining"}

\* C20: every operation that requests a specific month's budget or income
\* record which does not exist (get budget, get income, remaining budget,
\* update income, delete income) answers NotFound, unless the request body
\* itself is refused by the input validation; none answers success.
C20_MissingMonthNotFound ==
  [][pc' = "responded" /\ pc = "idle" /\ res'.error \notin InputErrors
       /\ \/ /\ req'.op \in C20_IncomeOps
             /\ req'.month \notin DOMAIN userIncome[req'.user].income
          \/ /\ req'.op \in C20_BudgetOps
             /\ req'.month \notin DOMAIN userBudgets[req'.user].budgets
       => res'.status = 404]_vars

(***************************************************************************)
(* Further properties of the budget reconciliation engine                  *)
(***************************************************************************)
\* C30: in every result of remaining(user, month) the sum of all values of
\* the returned remaining mapping (every declared category plus MIS) equals
\* totalRemaining, for any set of declared category codes and any entries.
C30_RemainingSumsToTotalRemaining ==
  RemainingAnswered =>
    SumValues(res.body.remainingBudgets) = res.body.totalRemaining


(***************************************************************************)
(* GET /savings/summary/:year: the year-to-date summary.  The clock reading *)
(* (new Date()) is an input of the request.                                 *)
(***************************************************************************)
\* a plausible slip: the current month is left out of the year to date
SummaryMonths_BeforeCurrent(year, currentYear, currentMonth) ==
  IF year = currentYear THEN currentMonth - 1 ELSE MonthsPerYear
\* const monthsToCalculate = year === currentYear ? currentMonth : 12
SummaryMonths(year, currentYear, currentMonth) ==
  IF year = currentYear THEN currentMonth ELSE MonthsPerYear

\* totalIncome += monthlyIncome, for i = 1 .. n
RECURSIVE SummaryIncome(_, _, _)
SummaryIncome(incomeDoc, year, n) ==
  IF n <= 0 THEN 0
  ELSE SummaryIncome(incomeDoc, year, n - 1)
         + GetMonthlyIncome(incomeDoc, YearMonth(year, n))

\* totalExpenses += monthlyExpenses, for i = 1 .. n
RECURSIVE SummaryExpenses(_, _, _)
SummaryExpenses(entriesDoc, year, n) ==
  IF n <= 0 THEN 0
  ELSE SummaryExpenses(entriesDoc, year, n - 1)
         + CalculateMonthlyExpenses(entriesDoc, YearMonth(year, n))

\* if (monthlyIncome > 0) monthsWithIncome++
MonthsWithIncome(incomeDoc, year, n) ==
  Cardinality({i \in 1 .. n : GetMonthlyIncome(incomeDoc, YearMonth(year, i)) > 0})

SummaryBody(incomeDoc, entriesDoc, year, currentYear, currentMonth) ==
  LET monthsToCalculate == SummaryMonths(year, currentYear, currentMonth)
      totalIncome       == SummaryIncome(incomeDoc, year, monthsToCalculate)
      totalExpenses     == SummaryExpenses(entriesDoc, year, monthsToCalculate)
      totalSavings      == totalIncome - totalExpenses
  IN  [year             |-> year,
       period           |-> IF year = currentYear THEN "year-to-date" ELSE "full-year",
       monthsCovered    |-> monthsToCalculate,
       monthsWithIncome |-> MonthsWithIncome(incomeDoc, year, monthsToCalculate),
       totalIncome      |-> totalIncome,
       totalExpenses    |-> totalExpenses,
       totalSavings     |-> totalSavings,
       savingsRate      |-> SavingsRate(totalSavings, totalIncome),
       status           |-> IF totalSavings >= 0 THEN "saving" ELSE "overspending"]

SummaryResponse(incomeDoc, entriesDoc, year, currentYear, currentMonth) ==
  [status |-> 200, error |-> "none",
   body   |-> SummaryBody(incomeDoc, entriesDoc, year, currentYear, currentMonth)]

SavingsSummary(u, year, currentYear, currentMonth) ==
  /\ pc = "idle"
  /\ req' = [op |-> "savingsSummary", user |-> u, year |-> year,
             currentYear |-> currentYear, currentMonth |-> currentMonth]
  /\ res' = SummaryResponse(userIncome[u], userEntries[u], year, currentYear, currentMonth)
  /\ pc' = "responded"
  /\ UNCHANGED <<userIncome, userBudgets, userEntries, chat, reassignments, pending>>

(***************************************************************************)
(* The yearly reports over a user's history.  A history is a year of       *)
(* months, each of one kind: saving (income 2, nothing spent), even        *)
(* (income 1, 1 spent), overspent (no income, 1 spent) or empty; it is the *)
(* documents that POST /income and POST /add-user-entries leave behind.    *)
(***************************************************************************)
HistoryYear == "2024"

\* p saving months, then z even months, then o overspent months, the rest
\* empty, the whole shifted by r months round the year
HistoryKind(p, z, o, r, i) ==
  LET j == (i - 1 + MonthsPerYear - r) % MonthsPerYear
  IN  IF j < p THEN "saving"
      ELSE IF j < p + z THEN "even"
      ELSE IF j < p + z + o THEN "overspent"
      ELSE "empty"

HistoryMonths(p, z, o, r, kinds) ==
  {i \in 1 .. MonthsPerYear : HistoryKind(p, z, o, r, i) \in kinds}

HistoryIndex(month) == CHOOSE i \in 1 .. MonthsPerYear : YearMonth(HistoryYear, i) = month

HistoryIncome(u, p, z, o, r) ==
  LET earning == HistoryMonths(p, z, o, r, {"saving", "even"})
      body(i) == [hasTotal |-> TRUE, hasSources |-> FALSE, sources |-> EmptyObj,
                  total |-> IF HistoryKind(p, z, o, r, i) = "saving" THEN 2 ELSE 1]
      stored(m) == SetIncomeStore(NoDoc, IncomeReq("setIncome", u, m,
                                                   body(HistoryIndex(m)))).income[m]
  IN  [exists |-> earning # {},
       income |-> [m \in {YearMonth(HistoryYear, i) : i \in earning} |-> stored(m)]]

HistoryEntries(p, z, o, r) ==
  LET spending == HistoryMonths(p, z, o, r, {"even", "overspent"})
      entry(m) == [id |-> "e" \o MonthNumbers[HistoryIndex(m)], code |-> "FOD", amount |-> 1]
  IN  [exists |-> spending # {},
       months |-> [m \in {YearMonth(HistoryYear, i) : i \in spending} |->
                     AddEntriesStore([exists |-> FALSE, months |-> EmptyObj],
                                     m, "01", <<entry(m)>>).months[m]]]

InitHistory ==
  /\ \E p \in 0 .. MonthsPerYear, z \in 0 .. MonthsPerYear, o \in 0 .. MonthsPerYear,
        r \in 0 .. MonthsPerYear - 1 :
       /\ p + z + o <= MonthsPerYear
       /\ userIncome = [u \in Users |-> HistoryIncome(u, p, z, o, r)]
       /\ userEntries = [u \in Users |-> HistoryEntries(p, z, o, r)]
  /\ userBudgets = [u \in Users |-> [exists |-> FALSE, budgets |-> EmptyObj]]
  /\ pc = "idle"
  /\ req = NoReq
  /\ res = NoRes
  /\ chat = NoChat
  /\ reassignments = EmptyBag
  /\ pending = NoPending

HistoryNext ==
  \/ \E u \in Users, y \in Years : YearlySavings(u, y)
  \/ \E u \in Users, y \in Years, cy \in Years, cm \in 1 .. MonthsPerYear :
       SavingsSummary(u, y, cy, cm)
  \/ Finish

SpecHistory == InitHistory /\ [][HistoryNext]_vars

YearlyAnswered ==
  pc = "responded" /\ req.op = "yearlySavings" /\ res.status = 200

SummaryAnswered ==
  pc = "responded" /\ req.op = "savingsSummary" /\ res.status = 200


(***************************************************************************)
(* Properties of the yearly reports                                        *)
(***************************************************************************)
\* C27: in a yearlySavings result the best-savings month has the largest
\* savings of the twelve months and the worst-savings month the smallest;
\* among months of equal savings the lowest month number is reported, so a
\* year without data reports month 01 for both.
C27_BestWorstSavingsMonth ==
  YearlyAnswered =>
    LET rows  == res.body.monthlyBreakdown
        best  == res.body.insights.bestSavingsMonth
        worst == res.body.insights.worstSavingsMonth
    IN  /\ \A i \in DOMAIN rows : rows[i].savings <= best.savings
        /\ \A i \in DOMAIN rows : rows[i].savings >= worst.savings
        /\ \E i \in DOMAIN rows :
             /\ rows[i] = best
             /\ \A j \in 1 .. i - 1 : rows[j].savings < best.savings
        /\ \E i \in DOMAIN rows :
             /\ rows[i] = worst
             /\ \A j \in 1 .. i - 1 : rows[j].savings > worst.savings
        /\ (\A i \in DOMAIN rows : rows[i].income = 0 /\ rows[i].expenses = 0)
             => /\ best.month = YearMonth(req.year, 1)
                /\ worst.month = YearMonth(req.year, 1)

\* a year whose largest and whose smallest savings are each shared by several
\* months, neither starting in January
C27_Witness ==
  /\ YearlyAnswered
  /\ LET rows  == res.body.monthlyBreakdown
         best  == res.body.insights.bestSavingsMonth
         worst == res.body.insights.worstSavingsMonth
     IN  /\ best.savings > rows[1].savings
         /\ worst.savings < rows[1].savings
         /\ Cardinality({i \in DOMAIN rows : rows[i].savings = best.savings}) > 1
         /\ Cardinality({i \in DOMAIN rows : rows[i].savings = worst.savings}) > 1


\* C28: in a yearlySavings result consistentSaver is true exactly when at
\* least 9 of the 12 months have strictly positive savings; monthsWithData is
\* the number of months with income > 0 or expenses > 0, and it is the
\* divisor of the monthly averages (each the nearest integer to total /
\* monthsWithData), which are 0 when there is no such month.
C28_ConsistentSaverAndAverages ==
  YearlyAnswered =>
    LET rows   == res.body.monthlyBreakdown
        n      == res.body.summary.monthsWithData
        avg    == res.body.averages
        Nearest(a, total) == 2 * n * a <= 2 * total + n /\ 2 * total + n < 2 * n * (a + 1)
    IN  /\ res.body.insights.consistentSaver
             = (Cardinality({i \in DOMAIN rows : rows[i].savings > 0}) >= 9)
        /\ n = Cardinality({i \in DOMAIN rows : rows[i].income > 0 \/ rows[i].expenses > 0})
        /\ n > 0 => /\ Nearest(avg.monthlyIncome, res.body.summary.totalIncome)
                    /\ Nearest(avg.monthlyExpenses, res.body.summary.totalExpenses)
        /\ n = 0 => /\ avg.monthlyIncome = 0
                    /\ avg.monthlyExpenses = 0
                    /\ avg.monthlySavings = 0

\* a consistent saver with exactly nine saving months, the other three having
\* data without positive savings, one of them expenses only
C28_Witness ==
  /\ YearlyAnswered
  /\ LET rows == res.body.monthlyBreakdown
     IN  /\ res.body.insights.consistentSaver
         /\ Cardinality({i \in DOMAIN rows : rows[i].savings > 0}) = 9
         /\ res.body.summary.monthsWithData = 12
         /\ \E i \in DOMAIN rows : rows[i].income = 0 /\ rows[i].expenses > 0
         /\ res.body.averages.monthlyIncome * 12 # res.body.summary.totalIncome


\* C29: a yearToDateSummary result aggregates the months 01 .. current month
\* inclusive when the requested year is the current calendar year and all
\* twelve months otherwise; its totals are the sums over exactly those months,
\* totalSavings = totalIncome - totalExpenses, and status is 'saving' exactly
\* when totalSavings >= 0; for a year that is not the current one the three
\* totals equal those of yearlySavings for that year.
C29_Sum(f, S) ==
  LET RECURSIVE Sum(_)
      Sum(T) == IF T = {} THEN 0
                ELSE LET i == CHOOSE x \in T : TRUE IN f[i] + Sum(T \ {i})
  IN  Sum(S)

C29_YearToDateSummary ==
  SummaryAnswered =>
    LET rows    == YearlyRows(userIncome[req.user], userEntries[req.user], req.year)
        covered == IF req.year = req.currentYear THEN 1 .. req.currentMonth
                   ELSE 1 .. 12
        \* the totals of yearlySavings for the same year
        yearlyIncome   == TotalYearlyIncome(rows, Len(rows))
        yearlyExpenses == TotalYearlyExpenses(rows, Len(rows))
    IN  /\ res.body.monthsCovered = Cardinality(covered)
        /\ res.body.totalIncome = C29_Sum([i \in covered |-> rows[i].income], covered)
        /\ res.body.totalExpenses = C29_Sum([i \in covered |-> rows[i].expenses], covered)
        /\ res.body.totalSavings = res.body.totalIncome - res.body.totalExpenses
        /\ (res.body.status = "saving") = (res.body.totalSavings >= 0)
        /\ res.body.status \in {"saving", "overspending"}
        /\ req.year # req.currentYear =>
             /\ res.body.totalIncome = yearlyIncome
             /\ res.body.totalExpenses = yearlyExpenses
             /\ res.body.totalSavings = yearlyIncome - yearlyExpenses

\* a year to date that ends on a month with income and spending and leaves
\* out later months with income and with spending
C29_Witness ==
  /\ SummaryAnswered
  /\ req.year = req.currentYear
  /\ req.currentMonth < 12
  /\ LET rows == YearlyRows(userIncome[req.user], userEntries[req.user], req.year)
     IN  /\ rows[req.currentMonth].income > 0
         /\ rows[req.currentMonth].expenses > 0
         /\ res.body.totalIncome < TotalYearlyIncome(rows, Len(rows))
         /\ res.body.totalExpenses < TotalYearlyExpenses(rows, Len(rows))
         /\ res.body.status = "overspending"

\* a full-year summary of a year that is not the current one and has data
C29_FullYearWitness ==
  /\ SummaryAnswered
  /\ req.year # req.currentYear
  /\ res.body.totalIncome > 0
  /\ res.body.totalExpenses > 0


(***************************************************************************)
(* DELETE /entries/:date/:entryId                                          *)
(***************************************************************************)
\* the filter {[`${yearMonth}.${day}.entries`]: {$exists: true}}
DeleteEntryMatched(doc, month, day) ==
  /\ doc.exists
  /\ month \in DOMAIN doc.months
  /\ day \in DOMAIN doc.months[month]

\* $pull: {entries: {id: entryId}} removes every element whose id is entryId
Pull(es, entryId) == SelectSeq(es, LAMBDA e : e.id # entryId)

DeleteEntryResponse(doc, month, day, entryId) ==
  IF ~DeleteEntryMatched(doc, month, day)
    THEN Response(404, "No entries found for this date")
  ELSE IF Pull(doc.months[month][day].entries, entryId) = doc.months[month][day].entries
    THEN Response(404, "Entry not found with the specified ID")
  ELSE Response(200, "none")

\* a plausible slip: the date's entries are unset instead of pulled from
DeleteEntryStore_WholeDay(doc, month, day, entryId) ==
  IF DeleteEntryMatched(doc, month, day)
    THEN [doc EXCEPT !.months[month][day].entries = <<>>]
    ELSE doc
DeleteEntryStore(doc, month, day, entryId) ==
  IF DeleteEntryMatched(doc, month, day)
    THEN [doc EXCEPT !.months[month][day].entries = Pull(@, entryId)]
    ELSE doc

DeleteEntry(u, month, day, entryId) ==
  /\ pc = "idle"
  /\ req' = [op |-> "deleteEntry", user |-> u, month |-> month, day |-> day,
             entryId |-> entryId]
  /\ res' = DeleteEntryResponse(userEntries[u], month, day, entryId)
  /\ userEntries' = [userEntries EXCEPT
                       ![u] = DeleteEntryStore(userEntries[u], month, day, entryId)]
  /\ pc' = "responded"
  /\ UNCHANGED <<userIncome, userBudgets, chat, reassignments, pending>>

\* the number of entries a user's document holds
EntryCount(doc) ==
  LET slots == {x \in (DOMAIN doc.months) \X Days : x[2] \in DOMAIN doc.months[x[1]]}
      RECURSIVE Count(_)
      Count(S) == IF S = {} THEN 0
                  ELSE LET x == CHOOSE y \in S : TRUE
                       IN  Len(doc.months[x[1]][x[2]].entries) + Count(S \ {x})
  IN  Count(slots)

\* the entries a client posts: the ids are the client's, so an id may recur
PostedEntries == {e \in Entries : e.code = "FOD"}

PostedBatches ==
  {<<>>} \cup {<<e>> : e \in PostedEntries}
         \cup {<<p[1], p[2]>> : p \in PostedEntries \X PostedEntries}

EntryMonths == {"2024-01"}

EntriesNext ==
  \/ \E u \in Users, m \in EntryMonths, d \in Days, es \in PostedBatches :
       /\ EntryCount(userEntries[u]) + Len(es) <= MaxEntries
       /\ AddEntries(u, m, d, es)
  \/ \E u \in Users, m \in EntryMonths, d \in Days, id \in EntryIds :
       DeleteEntry(u, m, d, id)
  \/ Finish

SpecEntries == Init /\ [][EntriesNext]_vars

(***************************************************************************)
(* Properties of the entry deletion                                        *)
(***************************************************************************)
C25_EntriesAt(doc, month, day) ==
  IF DeleteEntryMatched(doc, month, day) THEN doc.months[month][day].entries ELSE <<>>

\* C25: deleteEntry(date, entryId) removes from that date's entry list the
\* entry whose id equals entryId and leaves every other entry, of that date
\* and of every other date, unchanged; when the date has no entry list, or no
\* entry of that date has that id, it reports NotFound and changes nothing.
C25_DeleteEntryFrame ==
  [][(pc = "idle" /\ pc' = "responded" /\ req'.op = "deleteEntry") =>
       LET u      == req'.user
           before == C25_EntriesAt(userEntries[u], req'.month, req'.day)
           has    == \E i \in DOMAIN before : before[i].id = req'.entryId
       IN  /\ has =>
                /\ res'.status = 200
                /\ userEntries'[u].months[req'.month][req'.day].entries
                     = SelectSeq(before, LAMBDA e : e.id # req'.entryId)
                /\ \A m \in Months, d \in Days :
                     <<m, d>> # <<req'.month, req'.day>> =>
                       /\ DeleteEntryMatched(userEntries'[u], m, d)
                            = DeleteEntryMatched(userEntries[u], m, d)
                       /\ C25_EntriesAt(userEntries'[u], m, d)
                            = C25_EntriesAt(userEntries[u], m, d)
           /\ ~has =>
                /\ res'.status = 404
                /\ userEntries' = userEntries
           /\ UNCHANGED <<userIncome, userBudgets>>]_vars

\* an entry was deleted from a date that keeps another entry, while another
\* date has entries too
C25_Witness ==
  /\ pc = "responded" /\ req.op = "deleteEntry" /\ res.status = 200
  /\ C25_EntriesAt(userEntries[req.user], req.month, req.day) # <<>>
  /\ \E m \in Months, d \in Days :
       /\ <<m, d>> # <<req.month, req.day>>
       /\ C25_EntriesAt(userEntries[req.user], m, d) # <<>>


(***************************************************************************)
(* POST /budgets/:month/reassign, and DELETE /budgets/:month, for which    *)
(* the budgets router declares no route.                                   *)
(***************************************************************************)
\* amount is optional; entryId and the categories are strings, "" when left out
ReassignBodies ==
  [entryId : EntryIds \cup {""}, fromCategory : {"MIS"}, toCategory : {"FOD", ""},
   hasAmount : {TRUE}, amount : 1 .. 2]
  \cup [entryId : EntryIds, fromCategory : {"MIS"}, toCategory : {"FOD"},
        hasAmount : {FALSE}, amount : {0}]

ReassignValidation(b) ==
  IF b.entryId = "" \/ b.fromCategory = "" \/ b.toCategory = "" \/ ~b.hasAmount
    THEN Response(400, "entryId, fromCategory, toCategory, and amount are required")
    ELSE Response(201, "none")

\* the filter {userId, month, entryId}
ReassignMatches(u, month, entryId) ==
  {d \in BagToSet(reassignments) :
     d.userId = u /\ d.month = month /\ d.entryId = entryId}

ReassignRecord(u, month, b) ==
  [userId |-> u, month |-> month, entryId |-> b.entryId,
   fromCategory |-> b.fromCategory, toCategory |-> b.toCategory, amount |-> b.amount]

\* a plausible slip: insertOne instead of an upsert
ReassignStore_Insert(u, month, b) ==
  reassignments (+) SetToBag({ReassignRecord(u, month, b)})
\* updateOne({userId, month, entryId}, {$set: {...}}, {upsert: true}): one
\* matching document is updated, and one is inserted when none matches
ReassignStore(u, month, b) ==
  LET matches == ReassignMatches(u, month, b.entryId)
  IN  IF matches = {}
        THEN reassignments (+) SetToBag({ReassignRecord(u, month, b)})
        ELSE LET d == CHOOSE x \in matches : TRUE
             IN  (reassignments (-) SetToBag({d}))
                   (+) SetToBag({ReassignRecord(u, month, b)})

Reassign(u, month, b) ==
  LET v == ReassignValidation(b)
  IN  /\ pc = "idle"
      /\ req' = [op |-> "reassign", user |-> u, month |-> month, body |-> b]
      /\ res' = v
      /\ reassignments' = IF v.status = 201 THEN ReassignStore(u, month, b)
                          ELSE reassignments
      /\ pc' = "responded"
      /\ UNCHANGED <<userIncome, userBudgets, userEntries, chat, pending>>

\* DELETE /api/v1/budgets/:month matches no route of the budgets router (its
\* routes are GET /, POST /, GET /:month, GET /:month/remaining and
\* POST /:month/reassign), so the framework answers 404 and nothing is written
DeleteBudgetResponse == Response(404, "Cannot DELETE")

DeleteBudget(u, month) ==
  /\ pc = "idle"
  /\ req' = [op |-> "deleteBudget", user |-> u, month |-> month]
  /\ res' = DeleteBudgetResponse
  /\ pc' = "responded"
  /\ UNCHANGED <<userIncome, userBudgets, userEntries, reassignments, chat, pending>>

\* the budgets and the entries the reassignment requests run next to
ReassignBudgetBodies == {b \in BudgetBodies : b.hasTotal /\ b.total = 1 /\ b.categories = EmptyObj}

ReassignEntryBatches(used) == {<<e>> : e \in {x \in PostedEntries : x.id \notin used}}

ReassignNext ==
  \/ \E u \in Users, m \in Months, b \in ReassignBudgetBodies : SetBudget(u, m, b)
  \/ \E u \in Users, m \in EntryMonths, d \in Days :
       \E es \in ReassignEntryBatches(DocIds(userEntries[u])) : AddEntries(u, m, d, es)
  \/ \E u \in Users, m \in Months, b \in ReassignBodies : Reassign(u, m, b)
  \/ \E u \in Users, m \in Months : DeleteBudget(u, m)
  \/ \E u \in Users, m \in Months : Remaining(u, m)
  \/ \E u \in Users, m \in Months : GetBudget(u, m)
  \/ Finish

SpecReassign == Init /\ [][ReassignNext]_vars


(***************************************************************************)
(* Properties of the reassignment log and of the budget deletion           *)
(***************************************************************************)
\* the number of stored reassignment records for a key
C26_Records(u, month, entryId) ==
  LET matches == ReassignMatches(u, month, entryId)
      RECURSIVE Copies(_)
      Copies(S) == IF S = {} THEN 0
                   ELSE LET d == CHOOSE x \in S : TRUE
                        IN  CopiesIn(d, reassignments) + Copies(S \ {d})
  IN  Copies(matches)

\* C26: reassignBudget is persisted idempotently as a passive log: after any
\* number of reassign operations with the same (user, month, entryId) there is
\* exactly one reassignment record for that key, holding the values of the
\* last call; a reassign changes no entry and no budget, and the result of
\* remaining(user, month) is the same before and after it.
C26_ReassignIdempotentPassiveLog ==
  /\ [](\A u \in Users, m \in Months, e \in EntryIds : C26_Records(u, m, e) <= 1)
  /\ []((pc = "responded" /\ req.op = "reassign" /\ res.status = 201) =>
          /\ C26_Records(req.user, req.month, req.body.entryId) = 1
          /\ ReassignMatches(req.user, req.month, req.body.entryId)
               = {[userId |-> req.user, month |-> req.month,
                   entryId |-> req.body.entryId,
                   fromCategory |-> req.body.fromCategory,
                   toCategory |-> req.body.toCategory,
                   amount |-> req.body.amount]})
  /\ [][(pc = "idle" /\ pc' = "responded" /\ req'.op = "reassign") =>
          /\ userEntries' = userEntries
          /\ userBudgets' = userBudgets
          /\ \A m \in Months :
               RemainingResponse(userBudgets'[req'.user], userEntries'[req'.user], m)
                 = RemainingResponse(userBudgets[req'.user], userEntries[req'.user], m)
          /\ \A u \in Users, m \in Months, e \in EntryIds :
               <<u, m, e>> # <<req'.user, req'.month, req'.body.entryId>> =>
                 ReassignMatches(u, m, e)' = ReassignMatches(u, m, e)]_vars

\* a reassignment was logged for an entry of a month that has a budget and
\* entries, next to the records of another entry and of another month
C26_Witness ==
  /\ pc = "responded" /\ req.op = "reassign" /\ res.status = 201
  /\ RemainingResponse(userBudgets[req.user], userEntries[req.user], req.month).status = 200
  /\ req.body.entryId \in DocIds(userEntries[req.user])
  /\ \E e \in EntryIds \ {req.body.entryId} :
       C26_Records(req.user, req.month, e) = 1
  /\ \E m \in Months \ {req.month} :
       C26_Records(req.user, m, req.body.entryId) = 1

\* C24: delete-budget for (user, month) removes that month's budget, so that a
\* following remaining(user, month) returns NotFound and get-budget shows no
\* budget for the month, while the budgets of other months are unchanged.
C24_DeleteBudgetRemoves ==
  [][(pc = "idle" /\ pc' = "responded" /\ req'.op = "deleteBudget") =>
       LET u == req'.user
       IN  /\ RemainingResponse(userBudgets'[u], userEntries'[u], req'.month).status = 404
           /\ GetBudgetResponse(userBudgets'[u], req'.month).body.budget = Null
           /\ \A m \in Months \ {req'.month} :
                GetBudgetResponse(userBudgets'[u], m) = GetBudgetResponse(userBudgets[u], m)]_vars


(***************************************************************************)
(* Further properties of the chat orchestrator                             *)
(***************************************************************************)
\* C23: within one chat request the concurrently dispatched intents share no
\* mutable state: no two branches read or write the same stored (user, month)
\* record, so the result reported for an intent does not depend on the order
\* in which the branches run: what the handler answered a getRemainingBudget
\* branch is what it answers on the records as the other branches leave them.
C23_BranchesIndependent ==
  (pc = "chat" /\ chat.state = "DISPATCHING") =>
    \A k \in DOMAIN chat.intents :
      (/\ chat.intents[k].intent = "getRemainingBudget"
       /\ chat.branch[k] = "answered"
       /\ chat.outcome[k] # NetworkError) =>
        chat.outcome[k] = RemainingResponse(userBudgets[req.user], userEntries[req.user],
                                            chat.intents[k].parameters.month)


(***************************************************************************)
(* PUT /income/:month, step by step: the handler reads the record          *)
(* (findOne), awaits, and then writes (updateOne), so that two requests    *)
(* interleave between the read of one and its write.                       *)
(***************************************************************************)
\* const existingDoc = await userIncome.findOne(...): the checks up to the 404
UpdateIncomeFind(k, u, month, b) ==
  LET r   == IncomeReq("updateIncome", u, month, b)
      v   == UpdateIncomeValidation(r)
      doc == userIncome[u]
  IN  /\ pending[k].state = "idle"
      /\ pending' =
           [pending EXCEPT ![k] =
              IF v.status # 200
                THEN [state |-> "done", r |-> r, existing |-> EmptyObj, res |-> v]
              ELSE IF ~doc.exists \/ month \notin DOMAIN doc.income
                THEN [state |-> "done", r |-> r, existing |-> EmptyObj,
                      res |-> Response(404, "no income record")]
              ELSE [state |-> "read", r |-> r, existing |-> doc.income[month],
                    res |-> NoRes]]
      /\ UNCHANGED <<userIncome, userBudgets, userEntries, reassignments, pc, req, res, chat>>

\* $set: {income.<month>.total (when total is given), income.<month>.sources},
\* computed from the record as it was read and applied to the record as it is
UpdateIncomeSet(doc, existing, r) ==
  LET current == IF r.month \in DOMAIN doc.income THEN doc.income[r.month] ELSE EmptyObj
      withTotal == IF r.hasTotal
                     THEN Spread(current, "total", UpdateIncomeFinalTotal(existing, r))
                     ELSE current
  IN  IF ~doc.exists THEN doc
      ELSE [doc EXCEPT !.income =
              SetPath(doc.income, r.month,
                      Spread(withTotal, "sources", UpdateIncomeFinalSources(existing, r)))]

\* await userIncome.updateOne(...): the three cases and the write
UpdateIncomeWrite(k) ==
  LET r        == pending[k].r
      existing == pending[k].existing
      exceeds  == UpdateIncomeExceeds(existing, r)
  IN  /\ pending[k].state = "read"
      /\ pending' = [pending EXCEPT ![k].state = "done",
                                    ![k].res = IF exceeds
                                                 THEN Response(400, "sources exceed total")
                                                 ELSE Response(200, "none")]
      /\ userIncome' = IF exceeds THEN userIncome
                       ELSE [userIncome EXCEPT
                               ![r.user] = UpdateIncomeSet(userIncome[r.user], existing, r)]
      /\ UNCHANGED <<userBudgets, userEntries, reassignments, pc, req, res, chat>>

\* the response of slot k has been sent
UpdateIncomeFinish(k) ==
  /\ pending[k].state = "done"
  /\ pending' = [pending EXCEPT ![k] = NoSlot]
  /\ UNCHANGED <<userIncome, userBudgets, userEntries, reassignments, pc, req, res, chat>>

\* the record the concurrent updates start from: a month declared by its total
RaceMonth == "2024-01"

InitRace ==
  /\ \E t \in 1 .. MaxIncome :
       userIncome = [u \in Users |->
                       SetIncomeStore(NoDoc,
                                      IncomeReq("setIncome", u, RaceMonth,
                                                [hasTotal |-> TRUE, total |-> t,
                                                 hasSources |-> FALSE,
                                                 sources |-> EmptyObj]))]
  /\ userBudgets = [u \in Users |-> [exists |-> FALSE, budgets |-> EmptyObj]]
  /\ userEntries = [u \in Users |-> [exists |-> FALSE, months |-> EmptyObj]]
  /\ reassignments = EmptyBag
  /\ pending = NoPending
  /\ pc = "idle"
  /\ req = NoReq
  /\ res = NoRes
  /\ chat = NoChat

\* updates of the total alone or of the sources alone; neither names a source
\* miscellaneous nor gives the total 0
RaceBodies ==
  {b \in IncomeBodies :
     /\ ~(b.hasTotal /\ b.hasSources)
     /\ b.hasTotal => b.total > 0
     /\ "miscellaneous" \notin DOMAIN b.sources}

RaceNext ==
  \/ \E k \in Slots, u \in Users, b \in RaceBodies : UpdateIncomeFind(k, u, RaceMonth, b)
  \/ \E k \in Slots : UpdateIncomeWrite(k)
  \/ \E k \in Slots : UpdateIncomeFinish(k)

SpecRace == InitRace /\ [][RaceNext]_vars

(***************************************************************************)
(* Properties of concurrent income updates                                 *)
(***************************************************************************)
\* C22: under any interleaving of two concurrent updateIncome requests for
\* the same (user, month), each a read of the record followed by a separate
\* write, the record stored once both have written has sum(sources) = total.
C22_ConcurrentUpdatesKeepSum ==
  (\A k \in Slots : pending[k].state # "read") =>
    \A u \in Users : \A m \in DOMAIN IncomeOf(u) :
      SumValues(IncomeOf(u)[m].sources) = IncomeOf(u)[m].total

\* the record after an update of the total alone (1 to 2) and an update of the
\* sources alone (salary: 1) that both read the record {total: 1, main: 1}
C22_LostUpdate ==
  /\ \A k \in Slots : pending[k].state = "done" /\ pending[k].res.status = 200
  /\ pending[1].r.hasTotal /\ pending[1].r.total = 2
  /\ pending[2].r.hasSources /\ pending[2].r.sources = [salary |-> 1]
  /\ pending[1].existing = pending[2].existing
  /\ IncomeOf("u1")[RaceMonth].total = 2
  /\ IncomeOf("u1")[RaceMonth].sources = [salary |-> 1]


(***************************************************************************)
(* GET /entries?month=...: the entries of one month, each with its date.   *)
(* The listing is kept per day; the order of the days in the response is   *)
(* not modelled.                                                           *)
(***************************************************************************)
GetEntriesResponse(doc, month) ==
  LET monthData == MonthlyEntries(doc, month)
  IN  [status |-> 200, error |-> "none",
       body   |-> [entries |->
                     [day \in DOMAIN monthData |->
                        [i \in DOMAIN monthData[day].entries |->
                           [entry |-> monthData[day].entries[i],
                            date  |-> month \o "-" \o day]]]]]

\* a plausible slip: the filter {userId} is left out and the first document of
\* the collection is read
GetEntries_AnyDocument(u, month) ==
  /\ pc = "idle"
  /\ req' = [op |-> "getEntries", user |-> u, month |-> month]
  /\ res' = GetEntriesResponse(userEntries[CHOOSE v \in DOMAIN userEntries : TRUE], month)
  /\ pc' = "responded"
  /\ UNCHANGED <<userIncome, userBudgets, userEntries, chat, reassignments, pending>>
GetEntries(u, month) ==
  /\ pc = "idle"
  /\ req' = [op |-> "getEntries", user |-> u, month |-> month]
  /\ res' = GetEntriesResponse(userEntries[u], month)
  /\ pc' = "responded"
  /\ UNCHANGED <<userIncome, userBudgets, userEntries, chat, reassignments, pending>>

(***************************************************************************)
(* Two users of one server: every handler takes the user id from the       *)
(* verified token (requireAuth) and filters its collection by it; the chat *)
(* orchestrator forwards the caller's Authorization header.                *)
(***************************************************************************)
Tenants == {"u1", "u2"}

InitTenants ==
  /\ userIncome = [u \in Tenants |-> NoDoc]
  /\ userBudgets = [u \in Tenants |-> [exists |-> FALSE, budgets |-> EmptyObj]]
  /\ userEntries = [u \in Tenants |-> [exists |-> FALSE, months |-> EmptyObj]]
  /\ reassignments = EmptyBag
  /\ pending = NoPending
  /\ pc = "idle"
  /\ req = NoReq
  /\ res = NoRes
  /\ chat = NoChat

TenantIncomeBodies == {b \in SavingsIncomeBodies : b.hasTotal /\ b.total = 1}

TenantReassignBodies ==
  {b \in ReassignBodies : b.entryId = "e1" /\ b.toCategory = "FOD" /\ b.amount = 1}

\* the resolver names one supported operation
TenantLlmOutcomes(used) ==
  {o \in LlmIntentOutcomes(used) :
     /\ o.kind = "single"
     /\ o.intents[1].intent \in {"getRemainingBudget", "addEntries", "createBudget"}
     /\ o.intents[1].parameters.body.hasTotal = (o.intents[1].intent = "createBudget")}

\* const intentData = await extractIntent(message)
TenantChatExtract ==
  /\ pc = "chat" /\ chat.state = "RECEIVED"
  /\ \E o \in TenantLlmOutcomes(DocIds(userEntries[req.user])) :
       chat' = [chat EXCEPT !.state = "INTENTS_EXTRACTED", !.intents = ExtractIntent(o)]
  /\ UNCHANGED <<userIncome, userBudgets, userEntries, pc, req, res, reassignments, pending>>

TenantNext ==
  \/ \E u \in Tenants, b \in TenantIncomeBodies : SetIncome(u, RaceMonth, b)
  \/ \E u \in Tenants, b \in ReassignBudgetBodies : SetBudget(u, RaceMonth, b)
  \/ \E u \in Tenants :
       \E es \in ReassignEntryBatches(DocIds(userEntries[u])) :
         AddEntries(u, RaceMonth, "01", es)
  \/ \E u \in Tenants, id \in EntryIds : DeleteEntry(u, RaceMonth, "01", id)
  \/ \E u \in Tenants, b \in TenantReassignBodies : Reassign(u, RaceMonth, b)
  \/ \E u \in Tenants : ChatReceive(u, TRUE)
  \/ TenantChatExtract
  \/ ChatDispatch
  \/ \E k \in 1 .. MaxIntents : ChatCall(k)
  \/ \E k \in 1 .. MaxIntents : ChatSettle(k)
  \/ ChatAggregate
  \/ ChatReply
  \/ \E u \in Tenants : GetEntries(u, RaceMonth)
  \/ \E u \in Tenants : GetBudget(u, RaceMonth)
  \/ \E u \in Tenants : Remaining(u, RaceMonth)
  \/ \E u \in Tenants : GetIncome(u, RaceMonth)
  \/ \E u \in Tenants : MonthlySavings(u, RaceMonth)
  \/ \E u \in Tenants : YearlySavings(u, HistoryYear)
  \/ Finish

SpecTenants == InitTenants /\ [][TenantNext]_vars


(***************************************************************************)
(* Properties of the separation of users                                   *)
(***************************************************************************)
\* everything stored under a user's id
C21_DocumentsOf(u) ==
  <<userIncome[u], userBudgets[u], userEntries[u],
    [d \in {x \in BagToSet(reassignments) : x.userId = u} |-> CopiesIn(d, reassignments)]>>

\* the result of a read, computed from the documents of the user u alone
C21_ReadAlone(u) ==
  IF req.op = "getEntries" THEN GetEntriesResponse(userEntries[u], req.month)
  ELSE IF req.op = "getBudget" THEN GetBudgetResponse(userBudgets[u], req.month)
  ELSE IF req.op = "remaining"
    THEN RemainingResponse(userBudgets[u], userEntries[u], req.month)
  ELSE IF req.op = "getIncome" THEN GetIncomeResponse(userIncome[u], req.month)
  ELSE IF req.op = "monthlySavings"
    THEN MonthlySavingsResponse(userIncome[u], userEntries[u], req.month)
  ELSE YearlySavingsResponse(userIncome[u], userEntries[u], req.year)

C21_Reads ==
  {"getEntries", "getBudget", "remaining", "getIncome", "monthlySavings", "yearlySavings"}

\* C21: no cross-user interference: an operation of a user A (entries,
\* budgets, income, reassignments, chat) reads and writes only documents keyed
\* by A's id, so every step taken for A leaves the documents of every other
\* user B as they were, and every read by B (entries listing, budget,
\* remaining, income, monthly and yearly savings) returns what it returns on
\* B's documents alone, whatever A has stored.
C21_NoCrossUserInterference ==
  /\ [][\A b \in Tenants :
          (\/ pc = "idle" /\ pc' # "idle" /\ req'.user # b
           \/ pc = "chat" /\ req.user # b
           \/ pc = "responded")
            => C21_DocumentsOf(b)' = C21_DocumentsOf(b)]_vars
  /\ []((pc = "responded" /\ req.op \in C21_Reads) => res = C21_ReadAlone(req.user))
  /\ []((pc = "chat" /\ chat.state = "DISPATCHING") =>
          \A k \in DOMAIN chat.intents :
            (/\ chat.intents[k].intent = "getRemainingBudget"
             /\ chat.branch[k] = "answered") =>
              chat.outcome[k] = RemainingResponse(userBudgets[req.user],
                                                  userEntries[req.user],
                                                  chat.intents[k].parameters.month))

\* a user without documents reads, while the other user has income, a budget,
\* entries and a reassignment stored for the month, and is answered as on an
\* empty store
C21_Witness ==
  /\ pc = "responded" /\ req.op = "remaining" /\ req.user = "u2"
  /\ res.status = 404
  /\ ~userBudgets["u2"].exists /\ ~userEntries["u2"].exists /\ ~userIncome["u2"].exists
  /\ RemainingResponse(userBudgets["u1"], userEntries["u1"], req.month).status = 200
  /\ RemainingResponse(userBudgets["u1"], userEntries["u1"], req.month).body.totalSpent > 0
  /\ GetIncomeResponse(userIncome["u1"], req.month).body.income # Null
  /\ BagToSet(reassignments) # {}

====
